---- MODULE Spec2Model ----
(***************************************************************************)
(* Verification model of the nl2sql pipeline:                              *)
(*   text + schema -> parseIntentToIR -> optimizeIR -> generateSQL         *)
(* and of the cost-based AdvancedQueryOptimizer.                           *)
(*                                                                         *)
(* Strings are TLA+ strings and are processed character by character the   *)
(* way the JavaScript does (includes, toLowerCase, replace, regex tests).  *)
(* An optional JavaScript value (T | undefined) is a sequence of length    *)
(* at most one: <<>> is undefined, <<v>> is the value v.                   *)
(* ColumnRef | AggregateSpec and the shapes of Condition.rhs are told      *)
(* apart by structural probing ('func' in c), i.e. by the record's DOMAIN. *)
(***************************************************************************)
EXTENDS Integers, Sequences, FiniteSets, TLC

VARIABLES pc, prompt, schema, dialect, datasets, ir, optimized, sql, rows,
          cache, frequency, calls, r1, r2, heap, entities

vars == <<pc, prompt, schema, dialect, datasets, ir, optimized, sql, rows,
          cache, frequency, calls, r1, r2, heap, entities>>

(***************************************************************************)
(* JavaScript string primitives                                            *)
(***************************************************************************)
None == <<>>

Some(v) == <<v>>

\* a || b on optional strings: the first truthy operand, else the second
OrElse(a, b) == IF a # None /\ a[1] # "" THEN a ELSE b

Truthy(a) == a # None /\ a[1] # ""

CharAt(s, i) == SubSeq(s, i, i)

\* s.startsWith(p, i - 1): p occurs in s at position i
StartsAt(s, i, p) == i >= 1 /\ i + Len(p) - 1 <= Len(s) /\ SubSeq(s, i, i + Len(p) - 1) = p

\* String.prototype.includes
Includes(s, p) == \E i \in 1..(Len(s) - Len(p) + 1) : StartsAt(s, i, p)

\* String.prototype.endsWith
EndsWith(s, p) == Len(s) >= Len(p) /\ SubSeq(s, Len(s) - Len(p) + 1, Len(s)) = p

UpperChars == <<"A", "B", "C", "D", "E", "F", "G", "H", "I", "J", "K", "L", "M", "N", "O", "P", "Q", "R", "S", "T", "U", "V", "W", "X", "Y", "Z">>

LowerChars == <<"a", "b", "c", "d", "e", "f", "g", "h", "i", "j", "k", "l", "m", "n", "o", "p", "q", "r", "s", "t", "u", "v", "w", "x", "y", "z">>

UpperSet == { UpperChars[i] : i \in 1..Len(UpperChars) }

LowerSet == { LowerChars[i] : i \in 1..Len(LowerChars) }

LowerOf == [c \in UpperSet |-> LowerChars[CHOOSE i \in 1..Len(UpperChars) : UpperChars[i] = c]]

UpperOf == [c \in LowerSet |-> UpperChars[CHOOSE i \in 1..Len(LowerChars) : LowerChars[i] = c]]

LowerChar(c) == IF c \in UpperSet THEN LowerOf[c] ELSE c

RECURSIVE LowerFrom(_, _)
LowerFrom(s, i) == IF i > Len(s) THEN "" ELSE LowerChar(CharAt(s, i)) \o LowerFrom(s, i + 1)

\* String.prototype.toLowerCase
toLowerCase(s) == LowerFrom(s, 1)

\* s.replace(' ', '_'): a string pattern replaces the first occurrence only
replaceFirst(s, p, r) ==
    IF Includes(s, p)
    THEN LET i == CHOOSE k \in 1..(Len(s) - Len(p) + 1) :
                    /\ StartsAt(s, k, p)
                    /\ \A m \in 1..(k - 1) : ~StartsAt(s, m, p)
         IN SubSeq(s, 1, i - 1) \o r \o SubSeq(s, i + Len(p), Len(s))
    ELSE s

RECURSIVE ReplaceAllFrom(_, _, _, _)
ReplaceAllFrom(s, i, c, r) ==
    IF i > Len(s) THEN ""
    ELSE (IF CharAt(s, i) = c THEN r ELSE CharAt(s, i)) \o ReplaceAllFrom(s, i + 1, c, r)

\* s.replace(/c/g, r) for a one-character pattern c
replaceAll(s, c, r) == ReplaceAllFrom(s, 1, c, r)

IsSpace(c) == c \in {" ", "\t", "\n"}

Digits == <<"0", "1", "2", "3", "4", "5", "6", "7", "8", "9">>

DigitSet == { Digits[i] : i \in 1..Len(Digits) }

DigitOf == [c \in DigitSet |-> (CHOOSE i \in 1..Len(Digits) : Digits[i] = c) - 1]

IsDigit(c) == c \in DigitSet

DigitValue(c) == DigitOf[c]

\* first position at or after i whose character is not white space (\s+ is greedy)
RECURSIVE SkipSpaces(_, _)
SkipSpaces(s, i) == IF i <= Len(s) /\ IsSpace(CharAt(s, i)) THEN SkipSpaces(s, i + 1) ELSE i

\* first position at or after i whose character is not a digit (\d+ is greedy)
RECURSIVE SkipDigits(_, _)
SkipDigits(s, i) == IF i <= Len(s) /\ IsDigit(CharAt(s, i)) THEN SkipDigits(s, i + 1) ELSE i

\* Number(digits) for a string of decimal digits
RECURSIVE NumberFrom(_, _, _)
NumberFrom(s, i, acc) == IF i > Len(s) THEN acc ELSE NumberFrom(s, i + 1, acc * 10 + DigitValue(CharAt(s, i)))

Number(s) == NumberFrom(s, 1, 0)

\* the regular expression a\s+b matched at position i
SpacedAt(s, i, a, b) ==
    /\ StartsAt(s, i, a)
    /\ LET j == SkipSpaces(s, i + Len(a))
       IN j > i + Len(a) /\ StartsAt(s, j, b)

\* /a\s+b/.test(s)
TestSpaced(s, a, b) == \E i \in 1..Len(s) : SpacedAt(s, i, a, b)

\* /last\s+(\d+)\s+days?/ matched at position i; the optional s never decides a match
DaysAt(s, i) ==
    /\ StartsAt(s, i, "last")
    /\ LET j == SkipSpaces(s, i + 4)
           k == SkipDigits(s, j)
           m == SkipSpaces(s, k)
       IN j > i + 4 /\ k > j /\ m > k /\ StartsAt(s, m, "day")

\* text.match(/last\s+(\d+)\s+days?/): the capture group of the leftmost match
daysMatch(s) ==
    IF \E i \in 1..Len(s) : DaysAt(s, i)
    THEN LET i == CHOOSE k \in 1..Len(s) : DaysAt(s, k) /\ \A m \in 1..(k - 1) : ~DaysAt(s, m)
             j == SkipSpaces(s, i + 4)
         IN Some(SubSeq(s, j, SkipDigits(s, j) - 1))
    ELSE None

(***************************************************************************)
(* Schema lookups of the heuristic IR builder                              *)
(***************************************************************************)
\* Array.prototype.find: the first element satisfying P, or undefined
FindFirst(seq, P(_)) ==
    LET hits == {i \in 1..Len(seq) : P(seq[i])}
    IN IF hits = {} THEN None ELSE Some(seq[CHOOSE i \in hits : \A k \in hits : i <= k])

singularize(word) ==
    IF EndsWith(word, "ies") THEN SubSeq(word, 1, Len(word) - 3) \o "y"
    ELSE IF EndsWith(word, "s") THEN SubSeq(word, 1, Len(word) - 1)
    ELSE word

findTableByName(sch, name) ==
    LET lname == toLowerCase(name)
        Exact(t) == toLowerCase(t.name) = lname
        byExact == FindFirst(sch.tables, Exact)
        alt == singularize(lname)
        Sing(t) == toLowerCase(t.name) = alt \/ toLowerCase(t.name) = alt \o "s"
        bySing == FindFirst(sch.tables, Sing)
    IN IF byExact # None THEN Some(byExact[1].name)
       ELSE IF bySing # None THEN Some(bySing[1].name)
       ELSE None

columnExists(sch, table, column) ==
    LET Named(x) == x.name = table
        t == FindFirst(sch.tables, Named)
    IN IF t = None THEN FALSE
       ELSE \E i \in 1..Len(t[1].columns) :
                toLowerCase(t[1].columns[i].name) = toLowerCase(column)

dateCandidates == <<"created_at", "order_date", "date", "timestamp", "createdat">>

RECURSIVE DateColumnFrom(_, _)
DateColumnFrom(t, i) ==
    IF i > Len(dateCandidates) THEN None
    ELSE LET Hit(x) == toLowerCase(x.name) = dateCandidates[i]
             hit == FindFirst(t.columns, Hit)
         IN IF hit # None THEN Some(hit[1].name) ELSE DateColumnFrom(t, i + 1)

likelyDateColumn(sch, table) ==
    LET Named(x) == x.name = table
        t == FindFirst(sch.tables, Named)
    IN IF t = None THEN None ELSE DateColumnFrom(t[1], 1)

hasOrderItems(sch) == \E i \in 1..Len(sch.tables) : Includes(toLowerCase(sch.tables[i].name), "order_items")

ref(table, column) == [table |-> table, column |-> column]

\* a SelectQueryIR; every optional part is <<>> (undefined) or <<value>>
SelectQueryIR(from, columns, joins, where, groupBy, having, orderBy, limit) ==
    [from |-> from, columns |-> columns, joins |-> joins, where |-> where,
     groupBy |-> groupBy, having |-> having, orderBy |-> orderBy, limit |-> limit]

\* xs.length ? xs : undefined
NonEmptyOrUndefined(xs) == IF Len(xs) > 0 THEN Some(xs) ELSE None

\* part || []
OrEmpty(part) == IF part = None THEN <<>> ELSE part[1]

Returned(v) == [kind |-> "ok", value |-> v]

Thrown(errorClass, message) == [kind |-> "throw", error |-> errorClass, message |-> message]

(***************************************************************************)
(* Heuristic IR builder: parseIntentToIR(prompt, schema, opts)             *)
(***************************************************************************)
entityHints == <<"orders", "order items", "order_items", "customers", "users",
                 "products", "invoices", "restaurants", "merchants">>

\* the loop over entityHints: the last hint found in the text that resolves to a table wins
RECURSIVE HintBase(_, _, _, _)
HintBase(text, sch, i, base) ==
    IF i > Len(entityHints) THEN base
    ELSE LET hint == entityHints[i]
             name == replaceFirst(hint, " ", "_")
             found == findTableByName(sch, name)
         IN HintBase(text, sch, i + 1,
                     IF Includes(text, hint) \/ Includes(text, name)
                     THEN (IF found # None THEN found ELSE base)
                     ELSE base)

\* base table inference: hints, then the first schema table named in the text,
\* then the caller's default, then the schema's first table
inferBase(text, sch, opts) ==
    LET hinted == HintBase(text, sch, 1, None)
        Mentioned(t) == Includes(text, toLowerCase(t.name))
        mentioned == FindFirst(sch.tables, Mentioned)
        named == IF mentioned # None THEN Some(mentioned[1].name) ELSE hinted
        first == IF Len(sch.tables) > 0 THEN Some(sch.tables[1].name) ELSE None
    IN IF Truthy(named) THEN named ELSE OrElse(opts.defaultTable, first)

\* /(avg|average|mean).*total/.test(text)
TestAverageTotal(text) ==
    \E w \in {"avg", "average", "mean"} :
        \E i \in 1..Len(text) : \E j \in 1..Len(text) :
            /\ StartsAt(text, i, w)
            /\ j >= i + Len(w)
            /\ StartsAt(text, j, "total")
            /\ \A k \in (i + Len(w))..(j - 1) : CharAt(text, k) # "\n"

inferAggregate(text, sch, base) ==
    IF \E w \in {"total", "sum", "revenue", "sales"} : Includes(text, w)
    THEN IF hasOrderItems(sch) /\ findTableByName(sch, "order_items") # None
         THEN LET oi == findTableByName(sch, "order_items")[1]
              IN Some([func |-> "sum",
                       expr |-> [expr |-> oi \o ".quantity * " \o oi \o ".unit_price"],
                       alias |-> "total_revenue"])
         ELSE IF columnExists(sch, base, "total")
              THEN Some([func |-> "sum", expr |-> ref(base, "total"), alias |-> "total_amount"])
         ELSE IF columnExists(sch, base, "amount")
              THEN Some([func |-> "sum", expr |-> ref(base, "amount"), alias |-> "total_amount"])
         ELSE IF columnExists(sch, base, "price")
              THEN Some([func |-> "sum", expr |-> ref(base, "price"), alias |-> "total_price"])
         ELSE None
    ELSE IF Includes(text, "count")
    THEN Some([func |-> "count", expr |-> ref(base, "*"), alias |-> "count"])
    ELSE IF TestAverageTotal(text)
    THEN IF columnExists(sch, base, "total")
         THEN Some([func |-> "avg", expr |-> ref(base, "total"), alias |-> "avg_total"])
         ELSE IF columnExists(sch, base, "amount")
              THEN Some([func |-> "avg", expr |-> ref(base, "amount"), alias |-> "avg_amount"])
         ELSE None
    ELSE IF \E w \in {"avg", "average", "mean"} : Includes(text, w)
    THEN IF columnExists(sch, base, "amount")
         THEN Some([func |-> "avg", expr |-> ref(base, "amount"), alias |-> "avg_amount"])
         ELSE None
    ELSE None

\* group column on a dimension table: prefer name over id
NameOrId(sch, t) ==
    IF t = None THEN <<>>
    ELSE IF columnExists(sch, t[1], "name") THEN <<ref(t[1], "name")>>
    ELSE IF columnExists(sch, t[1], "id") THEN <<ref(t[1], "id")>>
    ELSE <<>>

inferGroupBy(text, sch, base) ==
    IF TestSpaced(text, "per", "customer") \/ TestSpaced(text, "by", "customer")
    THEN NameOrId(sch, OrElse(findTableByName(sch, "customers"), findTableByName(sch, "users")))
    ELSE IF TestSpaced(text, "per", "product") \/ TestSpaced(text, "by", "product")
    THEN NameOrId(sch, findTableByName(sch, "products"))
    ELSE IF \/ TestSpaced(text, "per", "restaurant") \/ TestSpaced(text, "by", "restaurant")
            \/ TestSpaced(text, "each", "restaurant")
    THEN LET merchants == findTableByName(sch, "merchants")
         IN (IF columnExists(sch, base, "merchant_id") THEN <<ref(base, "merchant_id")>> ELSE <<>>)
            \o (IF merchants # None /\ columnExists(sch, merchants[1], "name")
                THEN <<ref(merchants[1], "name")>> ELSE <<>>)
    ELSE IF TestSpaced(text, "per", "restaurateur") \/ TestSpaced(text, "each", "restaurateur")
    THEN LET merchants == findTableByName(sch, "merchants")
         IN IF merchants # None /\ columnExists(sch, merchants[1], "parent_merchant_id")
            THEN <<ref(merchants[1], "parent_merchant_id")>> ELSE <<>>
    ELSE IF \/ TestSpaced(text, "per", "day") \/ TestSpaced(text, "by", "day")
            \/ TestSpaced(text, "per", "date") \/ TestSpaced(text, "by", "date")
    THEN LET dc == likelyDateColumn(sch, base)
         IN IF Truthy(dc) THEN <<ref(base, dc[1])>> ELSE <<>>
    ELSE <<>>

join(type, left, right) == [type |-> type, left |-> left, right |-> right]

\* g.table === t for an optional t (undefined never equals a table name)
GroupsOn(groupBy, t) == t # None /\ \E i \in 1..Len(groupBy) : groupBy[i].table = t[1]

\* the revenue join: the aggregate is an expression over order_items
joinsRevenue(agg, orders, orderItems) ==
    /\ agg # None
    /\ "expr" \in DOMAIN agg[1].expr
    /\ Includes(agg[1].expr.expr, "order_items")
    /\ Truthy(orders) /\ Truthy(orderItems)

mentionsMerchant(text, groupBy, merchants) ==
    GroupsOn(groupBy, merchants) \/ Includes(text, "restaurant") \/ Includes(text, "merchant")

\* the joins in the order the code pushes them, and the base as they reassign it
insertJoins(base, orders, orderItems, customers, merchants, restaurants, revenue, byCustomer, merchantish) ==
    [joins |->
        (IF revenue THEN <<join("inner", ref(orders[1], "id"), ref(orderItems[1], "order_id"))>> ELSE <<>>)
        \o (IF byCustomer /\ Truthy(orders)
            THEN <<join("inner", ref(customers[1], "id"), ref(orders[1], "customer_id"))>> ELSE <<>>)
        \o (IF merchantish /\ Truthy(orders) /\ Truthy(merchants)
            THEN <<join("inner", ref(orders[1], "merchant_id"), ref(merchants[1], "merchant_id"))>> ELSE <<>>)
        \o (IF merchantish /\ Truthy(restaurants) /\ Truthy(merchants)
            THEN <<join("inner", ref(restaurants[1], "merchant_id"), ref(merchants[1], "merchant_id"))>> ELSE <<>>),
     base |-> IF revenue \/ (byCustomer /\ Truthy(orders)) \/ (merchantish /\ Truthy(orders) /\ Truthy(merchants))
              THEN orders[1] ELSE base]

joinsAmong(text, agg, groupBy, base, orders, orderItems, customers, merchants, restaurants) ==
    insertJoins(base, orders, orderItems, customers, merchants, restaurants,
                joinsRevenue(agg, orders, orderItems),
                GroupsOn(groupBy, customers) /\ Truthy(customers),
                mentionsMerchant(text, groupBy, merchants))

\* inferJoins that forgets the join to the customers dimension
inferJoins_noCustomerJoin(text, sch, agg, groupBy, base) ==
    joinsAmong(text, agg, groupBy, base,
               findTableByName(sch, "orders"), findTableByName(sch, "order_items"),
               None, findTableByName(sch, "merchants"), findTableByName(sch, "restaurants"))

\* join insertion; returns the joins and the base as reassigned by them
inferJoins(text, sch, agg, groupBy, base) ==
    joinsAmong(text, agg, groupBy, base,
               findTableByName(sch, "orders"), findTableByName(sch, "order_items"),
               OrElse(findTableByName(sch, "customers"), findTableByName(sch, "users")),
               findTableByName(sch, "merchants"), findTableByName(sch, "restaurants"))

\* the date column a filter uses: the base's, else the orders table's
filterDateColumn(sch, base) ==
    OrElse(likelyDateColumn(sch, base),
           likelyDateColumn(sch, OrElse(findTableByName(sch, "orders"), Some(base))[1]))

lastDaysFilter(text, sch, base) ==
    LET m == daysMatch(text)
        dc == filterDateColumn(sch, base)
    IN IF m # None /\ Truthy(dc)
       THEN <<[lhs |-> ref(base, dc[1]), op |-> ">=",
               rhs |-> [expr |-> "DATE('now', '-" \o m[1] \o " days')", intervalDays |-> Number(m[1])]]>>
       ELSE <<>>

monthFilter(text, sch, base) ==
    LET dc == filterDateColumn(sch, base)
    IN IF Includes(text, "june") /\ Truthy(dc)
       THEN LET tableRef == IF Includes(dc[1], ".") THEN dc[1] ELSE base \o "." \o dc[1]
            IN <<[lhs |-> [expr |-> "EXTRACT(MONTH FROM " \o tableRef \o ")"], op |-> "=",
                  rhs |-> [expr |-> "6"]]>>
       ELSE <<>>

statusFilter(text, sch, base) ==
    IF Includes(text, "completed") /\ columnExists(sch, base, "status")
    THEN <<[lhs |-> ref(base, "status"), op |-> "=", rhs |-> [expr |-> "'completed'"]]>>
    ELSE <<>>

\* schema.tables.map(t => t.name).join(', ')
RECURSIVE joinNames(_, _)
joinNames(tables, i) ==
    IF i > Len(tables) THEN ""
    ELSE tables[i].name \o (IF i < Len(tables) THEN ", " ELSE "") \o joinNames(tables, i + 1)

\* time window and filters, computed against the base the caller passes
inferWhere(text, sch, base) ==
    lastDaysFilter(text, sch, base) \o monthFilter(text, sch, base) \o statusFilter(text, sch, base)

noTablesError(p, sch) ==
    LET availableTables == joinNames(sch.tables, 1)
    IN Thrown("Error", "No tables available to infer from. Available tables: "
                       \o (IF availableTables # "" THEN availableTables ELSE "none")
                       \o ". Query: \"" \o p \o "\"")

\* columns = [...groupBy, agg] or base.*; the return statement
assembleIR(base, joins, where, groupBy, agg) ==
    Returned(SelectQueryIR(base,
                           IF Len(groupBy) = 0 /\ agg = None THEN <<ref(base, "*")>>
                           ELSE groupBy \o (IF agg # None THEN <<agg[1]>> ELSE <<>>),
                           NonEmptyOrUndefined(joins), NonEmptyOrUndefined(where),
                           NonEmptyOrUndefined(groupBy), None, None, None))

\* the filters inferred against the base as it was before the joins reassigned it
filtersAfterJoins_onFirstBase(text, sch, base0, agg, groupBy, joined) ==
    assembleIR(joined.base, joined.joins, inferWhere(text, sch, base0), groupBy, agg)

\* time window and filters are inferred once base and joins are final
filtersAfterJoins(text, sch, base0, agg, groupBy, joined) ==
    assembleIR(joined.base, joined.joins, inferWhere(text, sch, joined.base), groupBy, agg)

joinsAfterShape(text, sch, base0, agg, groupBy) ==
    filtersAfterJoins(text, sch, base0, agg, groupBy, inferJoins(text, sch, agg, groupBy, base0))

shapeAfterBase(p, text, sch, base0) ==
    IF ~Truthy(base0) THEN noTablesError(p, sch)
    ELSE joinsAfterShape(text, sch, base0[1], inferAggregate(text, sch, base0[1]),
                         inferGroupBy(text, sch, base0[1]))

baseAfterText(p, text, sch, opts) == shapeAfterBase(p, text, sch, inferBase(text, sch, opts))

\* parseIntentToIR: lower-case the prompt, then base, aggregate and grouping, joins, filters
parseIntentToIR(p, sch, opts) == baseAfterText(p, toLowerCase(p), sch, opts)

(***************************************************************************)
(* Basic optimizer: optimizeIR(ir)                                         *)
(***************************************************************************)
\* sel.some(c => !('func' in c) && c.table === g.table && c.column === g.column)
Projects(sel, g) ==
    \E i \in 1..Len(sel) :
        /\ "func" \notin DOMAIN sel[i]
        /\ sel[i].table = g.table
        /\ sel[i].column = g.column

\* the loop that unshifts every group column missing from the projection
RECURSIVE ensureGrouped(_, _, _)
ensureGrouped(sel, groupBy, i) ==
    IF i > Len(groupBy) THEN sel
    ELSE ensureGrouped(IF Projects(sel, groupBy[i]) THEN sel ELSE <<groupBy[i]>> \o sel,
                       groupBy, i + 1)

groupKey(g) == g.table \o "." \o g.column

\* groupBy.filter over a Set of seen `${table}.${column}` keys
RECURSIVE dedupeGroupBy(_, _, _)
dedupeGroupBy(groupBy, i, seen) ==
    IF i > Len(groupBy) THEN <<>>
    ELSE IF groupKey(groupBy[i]) \in seen THEN dedupeGroupBy(groupBy, i + 1, seen)
    ELSE <<groupBy[i]>> \o dedupeGroupBy(groupBy, i + 1, seen \cup {groupKey(groupBy[i])})

\* optimizeIR that de-duplicates the grouping keys but leaves the projection alone
optimizeIR_dedupeOnly(in) ==
    [in EXCEPT !.groupBy = IF in.groupBy # None THEN Some(dedupeGroupBy(in.groupBy[1], 1, {})) ELSE @]

optimizeIR(in) ==
    LET grouped == in.groupBy # None /\ Len(in.groupBy[1]) > 0
    IN [in EXCEPT
          !.columns = IF grouped THEN ensureGrouped(in.columns, in.groupBy[1], 1) ELSE @,
          !.groupBy = IF in.groupBy # None THEN Some(dedupeGroupBy(in.groupBy[1], 1, {})) ELSE @]

(***************************************************************************)
(* SQL generator: generateSQL(ir, dialect)                                 *)
(***************************************************************************)
UpperChar(c) == IF c \in LowerSet THEN UpperOf[c] ELSE c

RECURSIVE UpperFrom(_, _)
UpperFrom(s, i) == IF i > Len(s) THEN "" ELSE UpperChar(CharAt(s, i)) \o UpperFrom(s, i + 1)

toUpperCase(s) == UpperFrom(s, 1)

\* Array.prototype.join over already rendered strings
RECURSIVE joinStrings(_, _, _)
joinStrings(parts, sep, i) ==
    IF i > Len(parts) THEN ""
    ELSE parts[i] \o (IF i < Len(parts) THEN sep ELSE "") \o joinStrings(parts, sep, i + 1)

\* JSON.stringify of a literal: a number prints bare, a string is quoted and escaped
jsonStringify(v) ==
    IF "num" \in DOMAIN v THEN ToString(v.num)
    ELSE "\"" \o replaceAll(replaceAll(v.str, "\\", "\\\\"), "\"", "\\\"") \o "\""

\* the grave accent of the mysql dialect; the TLA+ lexer does not accept that character
\* inside a string, so the character is written as a circumflex throughout the model
Backtick == "^"

q(ident, d) ==
    IF ident = "*" THEN "*"
    ELSE IF d = "mysql" THEN Backtick \o replaceAll(ident, Backtick, Backtick \o Backtick) \o Backtick
    ELSE "\"" \o replaceAll(ident, "\"", "\"\"") \o "\""

HasAlias(c) == "alias" \in DOMAIN c /\ c.alias # ""

emitColumn(c, d) ==
    IF "func" \in DOMAIN c
    THEN LET expr == IF "expr" \in DOMAIN c.expr THEN c.expr.expr
                     ELSE q(c.expr.table, d) \o "." \o q(c.expr.column, d)
             sel == toUpperCase(c.func) \o "(" \o expr \o ")"
         IN IF HasAlias(c) THEN sel \o " AS " \o q(c.alias, d) ELSE sel
    ELSE LET sel == q(c.table, d) \o "." \o q(c.column, d)
         IN IF HasAlias(c) THEN sel \o " AS " \o q(c.alias, d)
            ELSE IF c.column # "*" THEN sel \o " AS " \o q(c.table \o "." \o c.column, d)
            ELSE sel

formatInterval(days, d) ==
    IF d = "postgres" THEN "CURRENT_DATE - INTERVAL '" \o ToString(days) \o " days'"
    ELSE IF d = "mysql" THEN "DATE_SUB(CURDATE(), INTERVAL " \o ToString(days) \o " DAY)"
    ELSE "DATE('now', '-" \o ToString(days) \o " days')"

emitJoin(j, from, d) ==
    LET joinTable == IF j.left.table = from THEN j.right.table
                     ELSE IF j.right.table = from THEN j.left.table
                     ELSE j.right.table
        onLeft == q(j.left.table, d) \o "." \o q(j.left.column, d)
        onRight == q(j.right.table, d) \o "." \o q(j.right.column, d)
    IN toUpperCase(j.type) \o " JOIN " \o q(joinTable, d) \o " ON " \o onLeft \o " = " \o onRight

\* emitRhs that prefers the portable expression text over the day count
emitRhs_exprFirst(w, d) ==
    IF "expr" \in DOMAIN w.rhs /\ w.rhs.expr # "" THEN w.op \o " " \o w.rhs.expr
    ELSE IF "intervalDays" \in DOMAIN w.rhs THEN w.op \o " " \o formatInterval(w.rhs.intervalDays, d)
    ELSE w.op \o " NULL"

emitRhs(w, d) ==
    IF "intervalDays" \in DOMAIN w.rhs THEN w.op \o " " \o formatInterval(w.rhs.intervalDays, d)
    ELSE IF "expr" \in DOMAIN w.rhs /\ w.rhs.expr # "" THEN w.op \o " " \o w.rhs.expr
    ELSE IF "null" \in DOMAIN w.rhs /\ w.rhs.null THEN w.op \o " NULL"
    ELSE IF "values" \in DOMAIN w.rhs
    THEN w.op \o " (" \o joinStrings([i \in 1..Len(w.rhs.values) |-> jsonStringify(w.rhs.values[i])], ", ", 1) \o ")"
    ELSE IF "range" \in DOMAIN w.rhs
    THEN "BETWEEN " \o jsonStringify(w.rhs.range[1]) \o " AND " \o jsonStringify(w.rhs.range[2])
    ELSE w.op \o " " \o (IF "value" \in DOMAIN w.rhs THEN jsonStringify(w.rhs.value) ELSE "NULL")

emitCondition(w, d) == q(w.lhs.table, d) \o "." \o q(w.lhs.column, d) \o " " \o emitRhs(w, d)

emitOrderBy(o, d) ==
    LET dir == IF "direction" \in DOMAIN o THEN toUpperCase(o.direction) ELSE ""
        text == q(o.expr.table, d) \o "." \o q(o.expr.column, d)
    IN IF dir = "" THEN text ELSE text \o " " \o dir

\* parts.filter(Boolean): the non-empty strings, in order
RECURSIVE filterBoolean(_, _)
filterBoolean(parts, i) ==
    IF i > Len(parts) THEN <<>>
    ELSE (IF parts[i] # "" THEN <<parts[i]>> ELSE <<>>) \o filterBoolean(parts, i + 1)

\* q(undefined, dialect) calls undefined.replace: a where condition whose lhs is not a ColumnRef
DereferencesUndefined(in) ==
    \E i \in 1..Len(OrEmpty(in.where)) : "table" \notin DOMAIN OrEmpty(in.where)[i].lhs

generateSQL(in, d) ==
    IF DereferencesUndefined(in)
    THEN Thrown("TypeError", "Cannot read properties of undefined (reading 'replace')")
    ELSE LET select == joinStrings([i \in 1..Len(in.columns) |-> emitColumn(in.columns[i], d)], ", ", 1)
             from == "FROM " \o q(in.from, d)
             js == OrEmpty(in.joins)
             joins == joinStrings([i \in 1..Len(js) |-> emitJoin(js[i], in.from, d)], " ", 1)
             ws == OrEmpty(in.where)
             where == joinStrings([i \in 1..Len(ws) |-> emitCondition(ws[i], d)], " AND ", 1)
             gs == OrEmpty(in.groupBy)
             groupBy == joinStrings([i \in 1..Len(gs) |-> q(gs[i].table, d) \o "." \o q(gs[i].column, d)], ", ", 1)
             os == OrEmpty(in.orderBy)
             orderBy == joinStrings([i \in 1..Len(os) |-> emitOrderBy(os[i], d)], ", ", 1)
             parts == << "SELECT " \o select,
                         from,
                         joins,
                         IF where # "" THEN "WHERE " \o where ELSE "",
                         IF groupBy # "" THEN "GROUP BY " \o groupBy ELSE "",
                         IF orderBy # "" THEN "ORDER BY " \o orderBy ELSE "",
                         IF in.limit # None /\ in.limit[1] # 0 THEN "LIMIT " \o ToString(in.limit[1]) ELSE "" >>
         IN Returned(joinStrings(filterBoolean(parts, 1), "\n", 1))

(***************************************************************************)
(* Inputs: schemas and prompts                                             *)
(***************************************************************************)
MaxTables == 2

TableInfo(name, cols) == [name |-> name, columns |-> [i \in 1..Len(cols) |-> [name |-> cols[i]]]]

customersTable == TableInfo("customers", <<"id", "name">>)

ordersTable == TableInfo("orders", <<"id", "customer_id", "merchant_id", "order_date", "total", "status">>)

orderItemsTable == TableInfo("order_items", <<"id", "order_id", "product", "quantity", "unit_price">>)

TableLibrary ==
    { customersTable, ordersTable, orderItemsTable,
      TableInfo("merchants", <<"merchant_id", "name">>),
      TableInfo("restaurants", <<"merchant_id", "name">>),
      TableInfo("invoices", <<"id", "amount", "created_at", "status">>) }

\* every list of at most n distinct tables of the library
RECURSIVE TableLists(_)
TableLists(n) ==
    IF n = 0 THEN {<<>>}
    ELSE LET shorter == TableLists(n - 1)
         IN shorter \cup { Append(l, t) : l \in {k \in shorter : Len(k) = n - 1},
                                           t \in TableLibrary }

Distinct(l) == \A i \in 1..Len(l) : \A k \in 1..Len(l) : i # k => l[i].name # l[k].name

\* the schema of the end-to-end test: customers, orders(id, customer_id, order_date),
\* order_items, in creation order
ScenarioSchema == [tables |-> <<customersTable, TableInfo("orders", <<"id", "customer_id", "order_date">>), orderItemsTable>>]

Schemas == { [tables |-> l] : l \in {k \in TableLists(MaxTables) : Distinct(k)} } \cup {ScenarioSchema}

Leads == {"Show orders", "total revenue", "Count invoices"}

Groupings == {"", "per customer", "per  restaurant", "by day"}

Filters == {"", "in the last 30 days", "last 7 day", "completed in June"}

\* the non-empty pieces, separated by one space
Sentence(parts) == joinStrings(filterBoolean(parts, 1), " ", 1)

Prompts == { Sentence(<<a, g, f>>) : a \in Leads, g \in Groupings, f \in Filters }

Dialects == {"sqlite", "postgres", "mysql", "postgresql"}

(***************************************************************************)
(* NL2SQL.run: the deterministic pipeline of one request.  pc is the       *)
(* position inside run: start -> parsed -> optimized -> done, or failed    *)
(* when a stage throws.                                                    *)
(***************************************************************************)
NotRun == [kind |-> "none"]

NoDatasets == [customers |-> <<>>, orders |-> <<>>, order_items |-> <<>>]

Idle ==
    /\ dialect = "sqlite"
    /\ sql = NotRun /\ rows = NotRun
    /\ cache = <<>> /\ frequency = <<>> /\ calls = 0 /\ r1 = NotRun /\ r2 = NotRun
    /\ heap = <<>> /\ entities = NotRun

Init ==
    /\ Idle
    /\ pc = "start"
    /\ prompt \in Prompts
    /\ schema \in Schemas
    /\ datasets = NoDatasets
    /\ ir = NotRun /\ optimized = NotRun

\* schema.tables[0]?.name
firstTableName(sch) == IF Len(sch.tables) > 0 THEN Some(sch.tables[1].name) ELSE None

\* const ir = parseIntentToIR(opts.prompt, schema, { defaultTable: schema.tables[0]?.name })
Parse ==
    /\ pc = "start"
    /\ ir' = parseIntentToIR(prompt, schema, [defaultTable |-> firstTableName(schema)])
    /\ pc' = IF ir'.kind = "throw" THEN "failed" ELSE "parsed"
    /\ UNCHANGED <<prompt, schema, dialect, datasets, optimized, sql, rows, cache, frequency, calls, r1, r2, heap, entities>>

\* const optimized = optimizeIR(ir)
Optimize ==
    /\ pc = "parsed"
    /\ optimized' = Returned(optimizeIR(ir.value))
    /\ pc' = "optimized"
    /\ UNCHANGED <<prompt, schema, dialect, datasets, ir, sql, rows, cache, frequency, calls, r1, r2, heap, entities>>

\* const sql = generateSQL(optimized, opts.dialect ?? 'sqlite')
Generate(d) ==
    /\ pc = "optimized"
    /\ dialect' = d
    /\ sql' = generateSQL(optimized.value, d)
    /\ pc' = IF sql'.kind = "throw" THEN "failed" ELSE "done"
    /\ UNCHANGED <<prompt, schema, datasets, ir, optimized, rows, cache, frequency, calls, r1, r2, heap, entities>>

Next == Parse \/ Optimize \/ \E d \in Dialects : Generate(d)

Spec == Init /\ [][Next]_vars

(***************************************************************************)
(* Properties of the heuristic IR builder                                  *)
(***************************************************************************)
SeqToSet(xs) == { xs[i] : i \in 1..Len(xs) }

\* the tables a query may refer to: from and both sides of every join
joinedTables(q0) ==
    {q0.from} \cup { j.left.table : j \in SeqToSet(OrEmpty(q0.joins)) }
              \cup { j.right.table : j \in SeqToSet(OrEmpty(q0.joins)) }

\* the tables named by the ColumnRefs of a query: plain and aggregated projections,
\* group columns, both sides of every where condition
referencedTables(q0) ==
    { c.table : c \in {x \in SeqToSet(q0.columns) : "func" \notin DOMAIN x} }
    \cup { c.expr.table : c \in {x \in SeqToSet(q0.columns) : "func" \in DOMAIN x /\ "table" \in DOMAIN x.expr} }
    \cup { g.table : g \in SeqToSet(OrEmpty(q0.groupBy)) }
    \cup { w.lhs.table : w \in {x \in SeqToSet(OrEmpty(q0.where)) : "table" \in DOMAIN x.lhs} }
    \cup { w.rhs.table : w \in {x \in SeqToSet(OrEmpty(q0.where)) : "table" \in DOMAIN x.rhs} }

\* C1: every ColumnRef of the IR built by parseIntentToIR names ir.from or a table
\* taking part in one of ir.joins
C1_ColumnRefsResolve ==
    ir.kind = "ok" => referencedTables(ir.value) \subseteq joinedTables(ir.value)

\* C3: on a schema with zero tables, building the IR fails with the typed NoTableError
C3_NoTableError ==
    (pc # "start" /\ Len(schema.tables) = 0) => (ir.kind = "throw" /\ ir.error = "NoTableError")

DayCounts == {7, 30}

\* the text contains "last N days" (or "last N day")
MentionsLastDays(text, n) == Includes(toLowerCase(text), "last " \o ToString(n) \o " day")

intervalConditions(q0) == { i \in 1..Len(OrEmpty(q0.where)) : "intervalDays" \in DOMAIN OrEmpty(q0.where)[i].rhs }

\* C7: for a prompt containing "last N days", when the final base table has a date-like
\* column, the IR holds exactly one relative-interval condition, with intervalDays = N
\* and its left-hand column attributed to the final ir.from
C7_LastDaysOnFinalBase ==
    \A n \in DayCounts :
        (/\ ir.kind = "ok"
         /\ MentionsLastDays(prompt, n)
         /\ likelyDateColumn(schema, ir.value.from) # None)
        => /\ Cardinality(intervalConditions(ir.value)) = 1
           /\ \A i \in intervalConditions(ir.value) :
                LET w == ir.value.where[1][i]
                IN /\ w.rhs.intervalDays = n
                   /\ "table" \in DOMAIN w.lhs
                   /\ w.lhs.table = ir.value.from
                   /\ w.lhs.column = likelyDateColumn(schema, ir.value.from)[1]

\* a last-30-days request whose base was reassigned from customers to orders by a join
C7_Witness ==
    /\ pc = "parsed"
    /\ MentionsLastDays(prompt, 30)
    /\ Len(schema.tables) > 0 /\ schema.tables[1].name = "customers"
    /\ ir.value.from = "orders"
    /\ ir.value.joins # None
    /\ \E i \in intervalConditions(ir.value) :
          ir.value.where[1][i].lhs = ref("orders", "order_date") /\ ir.value.where[1][i].rhs.intervalDays = 30

(***************************************************************************)
(* optimizeIR called on arbitrary IRs                                      *)
(***************************************************************************)
MaxColumns == 2

MaxGroupBy == 2

\* every list of at most n elements of pool
RECURSIVE ListsUpTo(_, _)
ListsUpTo(pool, n) ==
    IF n = 0 THEN {<<>>}
    ELSE LET shorter == ListsUpTo(pool, n - 1)
         IN shorter \cup { Append(l, x) : l \in {k \in shorter : Len(k) = n - 1}, x \in pool }

GroupPool == {ref("orders", "status"), ref("orders", "total"), ref("customers", "name")}

ColumnPool ==
    GroupPool \cup { [table |-> "orders", column |-> "status", alias |-> "state"],
                     [func |-> "count", expr |-> ref("orders", "*"), alias |-> "count"] }

OptimizerInputs ==
    { SelectQueryIR("orders", cs, None, None, g, None, None, None) :
        cs \in ListsUpTo(ColumnPool, MaxColumns),
        g \in {None} \cup { Some(l) : l \in ListsUpTo(GroupPool, MaxGroupBy) } }

InitOpt ==
    /\ Idle
    /\ pc = "parsed"
    /\ prompt = "" /\ schema = [tables |-> <<>>] /\ datasets = NoDatasets
    /\ ir \in { Returned(x) : x \in OptimizerInputs }
    /\ optimized = NotRun

NextOpt == Optimize

SpecOpt == InitOpt /\ [][NextOpt]_vars

\* C2: in the IR returned by optimizeIR every groupBy entry (same table and column)
\* is among the non-aggregate projected columns
C2_GroupBySubsetOfColumns ==
    optimized.kind = "ok" =>
        \A g \in SeqToSet(OrEmpty(optimized.value.groupBy)) :
            \E c \in SeqToSet(optimized.value.columns) :
                "func" \notin DOMAIN c /\ c.table = g.table /\ c.column = g.column

\* an input that groups by a column it does not project, with a repeated grouping key
C2_Witness ==
    /\ pc = "optimized"
    /\ ir.value.groupBy = Some(<<ref("customers", "name"), ref("customers", "name")>>)
    /\ ir.value.columns = <<[func |-> "count", expr |-> ref("orders", "*"), alias |-> "count"]>>
    /\ optimized.value.groupBy = Some(<<ref("customers", "name")>>)
    /\ optimized.value.columns[1] = ref("customers", "name")

(***************************************************************************)
(* generateSQL called on arbitrary IRs                                     *)
(***************************************************************************)
MaxConditions == 1

ordersToItems == join("inner", ref("orders", "id"), ref("order_items", "order_id"))

customersToOrders == join("left", ref("customers", "id"), ref("orders", "customer_id"))

restaurantsToMerchants == join("inner", ref("restaurants", "merchant_id"), ref("merchants", "merchant_id"))

JoinLists == { None, Some(<<ordersToItems>>), Some(<<ordersToItems, customersToOrders>>),
               Some(<<restaurantsToMerchants>>) }

ConditionPool ==
    { [lhs |-> ref("orders", "order_date"), op |-> ">=",
       rhs |-> [expr |-> "DATE('now', '-99 days')", intervalDays |-> 30]],
      [lhs |-> ref("orders", "order_date"), op |-> ">", rhs |-> [intervalDays |-> 0]],
      [lhs |-> ref("orders", "status"), op |-> "=", rhs |-> [expr |-> "'completed'"]],
      [lhs |-> ref("orders", "status"), op |-> "is", rhs |-> [null |-> TRUE]],
      [lhs |-> ref("orders", "total"), op |-> "in", rhs |-> [values |-> <<[num |-> 1], [str |-> "a\"b"]>>]],
      [lhs |-> ref("orders", "total"), op |-> "between", rhs |-> [range |-> <<[num |-> 1], [num |-> 9]>>]],
      [lhs |-> ref("orders", "total"), op |-> "<", rhs |-> [value |-> [num |-> 5]]],
      [lhs |-> ref("orders", "total"), op |-> ">", rhs |-> ref("orders", "id")],
      [lhs |-> [value |-> [num |-> 1]], op |-> "=", rhs |-> [value |-> [num |-> 1]]] }

HavingLists == { None, Some(<<[lhs |-> ref("orders", "total"), op |-> ">", rhs |-> [value |-> [num |-> 5]]]>>) }

OrderByLists == { None, Some(<<[expr |-> ref("orders", "total"), direction |-> "desc"]>>),
                  Some(<<[expr |-> ref("orders", "id")]>>) }

Limits == { None, Some(0), Some(5) }

GeneratorInputs ==
    { SelectQueryIR("orders", <<ref("orders", "status"), [func |-> "sum", expr |-> ref("orders", "total")]>>,
                    js, w, g, h, o, l) :
        js \in JoinLists,
        w \in {None} \cup { Some(x) : x \in ListsUpTo(ConditionPool, MaxConditions) },
        g \in {None, Some(<<ref("orders", "status")>>)},
        h \in HavingLists, o \in OrderByLists, l \in Limits }

InitGen ==
    /\ Idle
    /\ pc = "optimized"
    /\ prompt = "" /\ schema = [tables |-> <<>>] /\ datasets = NoDatasets
    /\ ir = NotRun
    /\ optimized \in { Returned(x) : x \in GeneratorInputs }

NextGen == \E d \in Dialects : Generate(d)

SpecGen == InitGen /\ [][NextGen]_vars

NonEmpty(part) == part # None /\ Len(part[1]) > 0

\* C4: every non-empty part of the IR (joins, where, groupBy, having, orderBy, limit)
\* appears in the SQL text generateSQL returns, or the call fails
C4_NoClauseDropped ==
    sql.kind = "ok" =>
        /\ NonEmpty(optimized.value.joins) => Includes(sql.value, " JOIN ")
        /\ NonEmpty(optimized.value.where) => Includes(sql.value, "\nWHERE ")
        /\ NonEmpty(optimized.value.groupBy) => Includes(sql.value, "\nGROUP BY ")
        /\ NonEmpty(optimized.value.having) => Includes(sql.value, "HAVING ")
        /\ NonEmpty(optimized.value.orderBy) => Includes(sql.value, "\nORDER BY ")
        /\ optimized.value.limit # None => Includes(sql.value, "\nLIMIT ")

MappedDialects == {"sqlite", "postgres", "mysql"}

HasInterval(q0) == intervalConditions(q0) # {}

\* C5: a relative-date condition rendered for a dialect without a mapping fails with an error
C5_UnmappedDialectFails ==
    (pc \in {"done", "failed"} /\ dialect \notin MappedDialects /\ HasInterval(optimized.value))
        => sql.kind = "throw"

\* the right-hand side the dialect prescribes for a window of n days
expectedInterval(n, d) ==
    CASE d = "sqlite" -> "DATE('now', '-" \o ToString(n) \o " days')"
      [] d = "postgres" -> "CURRENT_DATE - INTERVAL '" \o ToString(n) \o " days'"
      [] d = "mysql" -> "DATE_SUB(CURDATE(), INTERVAL " \o ToString(n) \o " DAY)"

\* C8: a where condition with rhs.intervalDays = N renders its right-hand side from N and
\* the dialect alone, whatever rhs.expr text the IR also carries
C8_IntervalFromDaysAndDialect ==
    (sql.kind = "ok" /\ dialect \in MappedDialects) =>
        \A i \in intervalConditions(optimized.value) :
            LET w == optimized.value.where[1][i]
            IN /\ Includes(sql.value, q(w.lhs.table, dialect) \o "." \o q(w.lhs.column, dialect) \o " "
                                      \o w.op \o " " \o expectedInterval(w.rhs.intervalDays, dialect))
               /\ ("expr" \in DOMAIN w.rhs /\ ~Includes(expectedInterval(w.rhs.intervalDays, dialect), w.rhs.expr))
                      => ~Includes(sql.value, w.rhs.expr)

\* a postgres rendering of a 30-day window whose IR also carries a sqlite expression text
C8_Witness ==
    /\ pc = "done" /\ dialect = "postgres"
    /\ \E i \in intervalConditions(optimized.value) :
          /\ optimized.value.where[1][i].rhs = [expr |-> "DATE('now', '-99 days')", intervalDays |-> 30]
    /\ Includes(sql.value, "\"orders\".\"order_date\" >= CURRENT_DATE - INTERVAL '30 days'")

TableNames == {"orders", "order_items", "customers", "merchants", "restaurants"}

\* the tables the SQL text introduces with FROM or JOIN
introducedTables(text, d) ==
    { t \in TableNames : Includes(text, "FROM " \o q(t, d) \o "\n") \/ EndsWith(text, "FROM " \o q(t, d))
                         \/ Includes(text, " JOIN " \o q(t, d) \o " ON ") }

\* the filter a condition denotes, as SQL text
denotedFilter(w, d) ==
    q(w.lhs.table, d) \o "." \o q(w.lhs.column, d) \o " " \o
    (IF "table" \in DOMAIN w.rhs THEN w.op \o " " \o q(w.rhs.table, d) \o "." \o q(w.rhs.column, d)
     ELSE emitRhs(w, d))

\* C9: for an IR without relative-date filters the SQL introduces exactly ir.from and the
\* tables of ir.joins, carries each join's ON pair, and its WHERE holds the conditions of ir.where
C9_RoundTrip ==
    (sql.kind = "ok" /\ ~HasInterval(optimized.value)) =>
        /\ introducedTables(sql.value, dialect) = joinedTables(optimized.value)
        /\ \A j \in SeqToSet(OrEmpty(optimized.value.joins)) :
              Includes(sql.value, " ON " \o q(j.left.table, dialect) \o "." \o q(j.left.column, dialect)
                                  \o " = " \o q(j.right.table, dialect) \o "." \o q(j.right.column, dialect))
        /\ \A w \in SeqToSet(OrEmpty(optimized.value.where)) :
              Includes(sql.value, denotedFilter(w, dialect))

(***************************************************************************)
(* NL2SQL.run with execute: true on the schema of the end-to-end test      *)
(***************************************************************************)
MaxOrders == 2

MaxItems == 2

CustomerNames == {"Alice", "Bob"}

\* two customers; the second may bear the first one's name
CustomerRows == { <<[id |-> 1, name |-> "Alice"], [id |-> 2, name |-> b]>> : b \in CustomerNames }

\* order i has the primary key 9 + i and belongs to customer 1 or 2
OrderRows ==
    UNION { { [i \in 1..n |-> [id |-> 9 + i, customer_id |-> owner[i]]] : owner \in [1..n -> {1, 2}] } : n \in 0..MaxOrders }

ItemChoices == { [order_id |-> o, quantity |-> k, unit_price |-> 5] : o \in {10, 11}, k \in {1, 2} }

ItemRows == UNION { [1..n -> ItemChoices] : n \in 0..MaxItems }

Datasets == { [customers |-> c, orders |-> o, order_items |-> i] : c \in CustomerRows, o \in OrderRows, i \in ItemRows }

RevenuePrompts == {"Show total revenue per customer", "Sales by  customer"}

InitExec ==
    /\ Idle
    /\ pc = "start"
    /\ prompt \in RevenuePrompts
    /\ schema = ScenarioSchema
    /\ datasets = NoDatasets
    /\ ir = NotRun /\ optimized = NotRun

\* the tables the rendered FROM and JOIN clauses bring into scope, in order
scopeOf(q0) ==
    <<q0.from>> \o [i \in 1..Len(OrEmpty(q0.joins)) |->
                      LET j == OrEmpty(q0.joins)[i]
                      IN IF j.left.table = q0.from THEN j.right.table
                         ELSE IF j.right.table = q0.from THEN j.left.table
                         ELSE j.right.table]

\* one row of every table in scope, chosen by index, that satisfies every ON condition
joinedRows(q0, data) ==
    LET scope == SeqToSet(scopeOf(q0))
    IN { f \in [scope -> 1..(MaxOrders + MaxItems + 2)] :
           /\ \A t \in scope : f[t] <= Len(data[t])
           /\ \A j \in SeqToSet(OrEmpty(q0.joins)) :
                 data[j.left.table][f[j.left.table]][j.left.column]
                   = data[j.right.table][f[j.right.table]][j.right.column] }

\* the operands of an expression text of the form t.a * u.b over the schema's columns
productOperands(expr, sch) ==
    LET cols == UNION { { ref(sch.tables[i].name, sch.tables[i].columns[k].name) :
                            k \in 1..Len(sch.tables[i].columns) } : i \in 1..Len(sch.tables) }
    IN { pr \in cols \X cols :
           expr = pr[1].table \o "." \o pr[1].column \o " * " \o pr[2].table \o "." \o pr[2].column }

RECURSIVE sumOver(_, _, _, _)
sumOver(fs, a, b, data) ==
    IF fs = {} THEN 0
    ELSE LET f == CHOOSE x \in fs : TRUE
         IN data[a.table][f[a.table]][a.column] * data[b.table][f[b.table]][b.column]
            + sumOver(fs \ {f}, a, b, data)

\* db.exec(sql) for the grouped SUM query that sql renders: one row per group key, keyed
\* by the output names of the SELECT list; the rows come in no guaranteed order
exec(q0, sch, data) ==
    LET g == OrEmpty(q0.groupBy)[1]
        agg == q0.columns[2]
        operands == productOperands(agg.expr.expr, sch)
        inScope(c) == c.table \in SeqToSet(scopeOf(q0))
    IN IF \/ Len(scopeOf(q0)) # Cardinality(SeqToSet(scopeOf(q0)))
          \/ ~(joinedTables(q0) \cup referencedTables(q0) \subseteq SeqToSet(scopeOf(q0)))
          \/ operands = {}
          \/ \E pr \in operands : ~inScope(pr[1]) \/ ~inScope(pr[2])
       THEN Thrown("Error", "no such column")
       ELSE LET pr == CHOOSE x \in operands : TRUE
                all == joinedRows(q0, data)
                keys == { data[g.table][f[g.table]][g.column] : f \in all }
            IN Returned({ [k \in {g.table \o "." \o g.column, agg.alias} |->
                             IF k = agg.alias
                             THEN [num |-> sumOver({f \in all : data[g.table][f[g.table]][g.column] = key},
                                                    pr[1], pr[2], data)]
                             ELSE [str |-> key]] : key \in keys })

\* the rows the test inserts; what matters is the content of the tables at the moment the
\* statement is executed
Insert(data) ==
    /\ pc = "done" /\ datasets = NoDatasets
    /\ datasets' = data
    /\ UNCHANGED <<pc, prompt, schema, dialect, ir, optimized, sql, rows, cache, frequency, calls, r1, r2, heap, entities>>

\* if (opts.execute) { non-sqlite dialects return rows: [] with a note; else rows = db.exec(sql) }
Execute ==
    /\ pc = "done"
    /\ rows' = IF dialect # "sqlite" THEN Returned({})
               ELSE exec(optimized.value, schema, datasets)
    /\ pc' = IF rows'.kind = "throw" THEN "failed" ELSE "executed"
    /\ UNCHANGED <<prompt, schema, dialect, datasets, ir, optimized, sql, cache, frequency, calls, r1, r2, heap, entities>>

NextExec == Parse \/ Optimize \/ (\E d \in Dialects : Generate(d)) \/ (\E data \in Datasets : Insert(data)) \/ Execute

SpecExec == InitExec /\ [][NextExec]_vars

(***************************************************************************)
(* Properties of the revenue-per-customer run                              *)
(***************************************************************************)
quoted(name, d) == LET mark == IF d = "mysql" THEN Backtick ELSE "\"" IN mark \o name \o mark

\* the customers (by id) owning the order an item belongs to
ownersOf(item, data) ==
    { data.orders[o].customer_id : o \in { k \in 1..Len(data.orders) : data.orders[k].id = item.order_id } }

\* quantity x unit_price summed over the first n items whose order belongs to one of owners
RECURSIVE revenueUpTo(_, _, _)
revenueUpTo(n, data, owners) ==
    IF n = 0 THEN 0
    ELSE LET item == data.order_items[n]
         IN (IF ownersOf(item, data) \cap owners # {} THEN item.quantity * item.unit_price ELSE 0)
            + revenueUpTo(n - 1, data, owners)

revenueOf(owners) == revenueUpTo(Len(datasets.order_items), datasets, owners)

customerIds == { datasets.customers[i].id : i \in 1..Len(datasets.customers) }

idsNamed(name) == { datasets.customers[i].id : i \in { k \in 1..Len(datasets.customers) : datasets.customers[k].name = name } }

hasItems(owners) == \E i \in 1..Len(datasets.order_items) : ownersOf(datasets.order_items[i], datasets) \cap owners # {}

revenueRow(name, total) == [k \in {"customers.name", "total_revenue"} |-> IF k = "total_revenue" THEN [num |-> total] ELSE [str |-> name]]

revenueSqlShape ==
    /\ sql.kind = "ok"
    /\ Includes(sql.value, "SUM(order_items.quantity * order_items.unit_price) AS " \o quoted("total_revenue", dialect))
    /\ Includes(sql.value, "FROM " \o quoted("orders", dialect))
    /\ Includes(sql.value, "INNER JOIN " \o quoted("order_items", dialect) \o " ON "
                             \o quoted("orders", dialect) \o "." \o quoted("id", dialect) \o " = "
                             \o quoted("order_items", dialect) \o "." \o quoted("order_id", dialect))
    /\ Includes(sql.value, "INNER JOIN " \o quoted("customers", dialect) \o " ON "
                             \o quoted("customers", dialect) \o "." \o quoted("id", dialect) \o " = "
                             \o quoted("orders", dialect) \o "." \o quoted("customer_id", dialect))
    /\ Includes(sql.value, "GROUP BY " \o quoted("customers", dialect) \o "." \o quoted("name", dialect))
    /\ Includes(sql.value, "SUM(") /\ Includes(sql.value, "GROUP BY") /\ Includes(sql.value, "JOIN")

\* C6 (as amended): a revenue-per-customer prompt over customers/orders/order_items never
\* fails; the SQL sums order_items.quantity * order_items.unit_price, inner-joins orders to
\* order_items and customers to orders and groups by customers.name; and on sqlite the
\* returned rows are exactly one row per customer NAME that owns an item, keyed
\* 'customers.name' and 'total_revenue', carrying the sum of quantity x unit_price over the
\* items of the orders of every customer bearing that name.
C6_RevenuePerName ==
    /\ pc # "failed"
    /\ pc \in {"done", "executed"} => revenueSqlShape
    /\ (pc = "executed" /\ dialect = "sqlite") =>
          /\ rows.kind = "ok"
          /\ rows.value = { revenueRow(name, revenueOf(idsNamed(name))) :
                              name \in { n \in CustomerNames : hasItems(idsNamed(n)) } }
    /\ (pc = "executed" /\ dialect # "sqlite") => rows = Returned({})

\* two differently named customers each own items, and the run returned a row for each
C6_Witness ==
    /\ pc = "executed" /\ dialect = "sqlite"
    /\ datasets # NoDatasets
    /\ datasets.customers[1].name # datasets.customers[2].name
    /\ hasItems({1}) /\ hasItems({2})
    /\ Cardinality(rows.value) = 2
    /\ \E r \in rows.value : r["customers.name"].str = "Alice" /\ r["total_revenue"].num = revenueOf({1})

\* C6 (as stated): each returned row carries that customer's sum of quantity x unit_price
\* over all items of their orders, for every customer with items that the row's name
\* designates.
C6_RowIsThatCustomersSum ==
    (pc = "executed" /\ dialect = "sqlite") =>
        \A r \in rows.value :
            \A c \in customerIds :
                (c \in idsNamed(r["customers.name"].str) /\ hasItems({c}))
                    => r["total_revenue"].num = revenueOf({c})

(***************************************************************************)
(* AdvancedQueryOptimizer: cost model, rewriter, join optimizer, cache     *)
(*                                                                         *)
(* Costs are counted in ten-thousandths of a cost unit, so that every cost *)
(* the code computes from its fixed statistics is an integer.  An IR that  *)
(* has been through a pass carries two more fields, prunedColumns and      *)
(* selectedIndexes; None stands for a field that is not set.               *)
(***************************************************************************)
AdvancedIR(q0) ==
    [from |-> q0.from, columns |-> q0.columns, joins |-> q0.joins, where |-> q0.where,
     groupBy |-> q0.groupBy, having |-> q0.having, orderBy |-> q0.orderBy, limit |-> q0.limit,
     prunedColumns |-> None, selectedIndexes |-> None, joinMethod |-> None]

\* JSON.parse(JSON.stringify(ir)): a Map serializes as {} and comes back a plain object
cloneIR(q0) == [q0 EXCEPT !.selectedIndexes = IF @ = None THEN None ELSE Some("Object")]

\* pages = ceil(rows * rowSize / pageSize) with rows = 10000, rowSize = 100, pageSize = 8192
scanCost(table) == ((10000 * 100 + 8192 - 1) \div 8192) * 10000

\* conditions.length * 0.01
filterCost(conditions) == Len(conditions) * 100

\* leftRows * rightRows * 0.0001 with rightRows = 10000
joinCost(j, leftRows) == leftRows * 10000

\* rows * 0.001 * groupBy.length
aggregateCost(groupBy, n) == n * 10 * Len(groupBy)

\* rows * log2(rows) * 0.0001, with log2(1000) = 9.966 to the precision of the cost unit;
\* estimate passes 1000 rows
sortCost(n) == (n * 9966) \div 1000

RECURSIVE joinCosts(_, _)
joinCosts(joins, i) == IF i > Len(joins) THEN 0 ELSE joinCost(joins[i], 1000) + joinCosts(joins, i + 1)

\* CostModel.estimate: an empty array is truthy, so orderBy: [] still pays the sort
estimate(q0) ==
    scanCost(q0.from)
    + (IF q0.where # None THEN filterCost(q0.where[1]) ELSE 0)
    + (IF q0.joins # None THEN joinCosts(q0.joins[1], 1) ELSE 0)
    + (IF q0.groupBy # None THEN aggregateCost(q0.groupBy[1], 1000) ELSE 0)
    + (IF q0.orderBy # None THEN sortCost(1000) ELSE 0)

\* keeps the first occurrence of each element
RECURSIVE unique(_, _)
unique(xs, i) ==
    IF i = 0 THEN <<>>
    ELSE LET before == unique(xs, i - 1)
         IN IF \E k \in 1..(i - 1) : xs[k] = xs[i] THEN before ELSE Append(before, xs[i])

\* drops every condition whose JSON text has been seen before
simplifyConditions(conditions) == unique(conditions, Len(conditions))

\* QueryRewriter.simplify: always a fresh clone
simplify(q0) ==
    LET simplified == cloneIR(q0)
    IN IF simplified.where # None
       THEN [simplified EXCEPT !.where = Some(simplifyConditions(simplified.where[1]))]
       ELSE simplified

IsColumnRef(side) == "table" \in DOMAIN side

dependsOnJoin(condition, q0) ==
    IF q0.joins = None \/ ~IsColumnRef(condition.lhs) THEN FALSE
    ELSE IF IsColumnRef(condition.rhs) THEN condition.lhs.table # condition.rhs.table
    ELSE FALSE

involvesAggregate(condition) == FALSE

canPushDown(condition, q0) ==
    IF ~IsColumnRef(condition.lhs) THEN FALSE
    ELSE IF involvesAggregate(condition) THEN FALSE
    ELSE IF dependsOnJoin(condition, q0) THEN FALSE
    ELSE TRUE

isRelevantToJoin(condition, j) ==
    IF ~IsColumnRef(condition.lhs) THEN FALSE
    ELSE condition.lhs.table \in {j.left.table, j.right.table}

RECURSIVE relevantTo(_, _, _)
relevantTo(j, conditions, i) ==
    IF i > Len(conditions) THEN <<>>
    ELSE (IF isRelevantToJoin(conditions[i], j) THEN <<conditions[i]>> ELSE <<>>) \o relevantTo(j, conditions, i + 1)

\* the conditions that can (wanted = TRUE) or cannot be pushed down, in order
RECURSIVE pushable(_, _, _, _)
pushable(conditions, q0, wanted, i) ==
    IF i > Len(conditions) THEN <<>>
    ELSE (IF canPushDown(conditions[i], q0) = wanted THEN <<conditions[i]>> ELSE <<>>)
         \o pushable(conditions, q0, wanted, i + 1)

\* the pushed conditions relevant to a join are appended to that join's conditions
withConditions(j, pushed) ==
    LET relevantConditions == relevantTo(j, pushed, 1)
    IN IF Len(relevantConditions) > 0
       THEN [type |-> j.type, left |-> j.left, right |-> j.right,
             conditions |-> (IF "conditions" \in DOMAIN j THEN j.conditions ELSE <<>>) \o relevantConditions]
       ELSE j

\* a where that is absent or empty comes back as the very same object: no pass is recorded
pushPredicatesReturnsInput(q0) == OrEmpty(q0.where) = <<>>

\* a pushdown that moves one condition per call and leaves the other pushable ones in where
pushPredicates_oneConditionPerCall(q0) ==
    IF pushPredicatesReturnsInput(q0) THEN q0
    ELSE LET optimized0 == cloneIR(q0)
             candidates == { i \in 1..Len(q0.where[1]) : canPushDown(q0.where[1][i], q0) }
         IN IF candidates # {}
            THEN LET first == CHOOSE i \in candidates : \A k \in candidates : i <= k
                 IN [optimized0 EXCEPT
                       !.joins = IF @ = None THEN None
                                 ELSE Some([i \in 1..Len(@[1]) |-> withConditions(@[1][i], <<q0.where[1][first]>>)]),
                       !.where = Some(SubSeq(q0.where[1], 1, first - 1)
                                      \o SubSeq(q0.where[1], first + 1, Len(q0.where[1])))]
            ELSE optimized0

pushPredicates(q0) ==
    IF pushPredicatesReturnsInput(q0) THEN q0
    ELSE LET optimized0 == cloneIR(q0)
             pushed == pushable(q0.where[1], q0, TRUE, 1)
             remaining == pushable(q0.where[1], q0, FALSE, 1)
         IN IF Len(pushed) > 0
            THEN [optimized0 EXCEPT
                    !.joins = IF @ = None THEN None
                              ELSE Some([i \in 1..Len(@[1]) |-> withConditions(@[1][i], pushed)]),
                    !.where = Some(remaining)]
            ELSE optimized0

\* `${c.table}.${c.column}`: a field the object lacks prints as undefined
qualifiedName(c) ==
    (IF "table" \in DOMAIN c THEN c.table ELSE "undefined") \o "."
    \o (IF "column" \in DOMAIN c THEN c.column ELSE "undefined")

RECURSIVE flatten(_, _)
flatten(lists, i) == IF i > Len(lists) THEN <<>> ELSE lists[i] \o flatten(lists, i + 1)

\* order.column.table: an OrderBySpec carries its column under expr, so order.column is
\* undefined and reading a property of it throws
readsUndefinedOrderColumn(q0) == \E i \in 1..Len(OrEmpty(q0.orderBy)) : "column" \notin DOMAIN q0.orderBy[1][i]

orderColumnError == Thrown("TypeError", "Cannot read properties of undefined (reading 'table')")

neededColumns(q0) ==
    LET conds == OrEmpty(q0.where)
        js == OrEmpty(q0.joins)
        sides(c) == (IF IsColumnRef(c.lhs) THEN <<qualifiedName(c.lhs)>> ELSE <<>>)
                    \o (IF IsColumnRef(c.rhs) THEN <<qualifiedName(c.rhs)>> ELSE <<>>)
        all == [i \in 1..Len(q0.columns) |-> qualifiedName(q0.columns[i])]
               \o flatten([i \in 1..Len(conds) |-> sides(conds[i])], 1)
               \o flatten([i \in 1..Len(js) |-> <<qualifiedName(js[i].left), qualifiedName(js[i].right)>>], 1)
               \o [i \in 1..Len(OrEmpty(q0.groupBy)) |-> qualifiedName(q0.groupBy[1][i])]
               \o [i \in 1..Len(OrEmpty(q0.orderBy)) |-> qualifiedName(q0.orderBy[1][i].column)]
    IN unique(all, Len(all))

\* always a fresh clone, with the needed columns recorded on it
pruneColumns(q0) ==
    IF readsUndefinedOrderColumn(q0) THEN orderColumnError
    ELSE Returned([cloneIR(q0) EXCEPT !.prunedColumns = Some(neededColumns(q0))])

\* the permutations of the joins, those starting with the first join first
RECURSIVE generateJoinOrders(_)
generateJoinOrders(joins) ==
    IF Len(joins) <= 1 THEN <<joins>>
    ELSE flatten([i \in 1..Len(joins) |->
                    LET remaining == SubSeq(joins, 1, i - 1) \o SubSeq(joins, i + 1, Len(joins))
                        subPermutations == generateJoinOrders(remaining)
                    IN [k \in 1..Len(subPermutations) |-> <<joins[i]>> \o subPermutations[k]]], 1)

\* JoinOptimizer.optimize: the first order of strictly lowest estimated cost
JoinOptimizer_optimize(q0) ==
    IF Len(OrEmpty(q0.joins)) <= 1 THEN q0
    ELSE LET orders == generateJoinOrders(q0.joins[1])
             cost(i) == estimate([cloneIR(q0) EXCEPT !.joins = Some(orders[i])])
             best == CHOOSE i \in 1..Len(orders) :
                        /\ \A k \in 1..Len(orders) : cost(i) <= cost(k)
                        /\ \A k \in 1..(i - 1) : cost(k) > cost(i)
         IN [cloneIR(q0) EXCEPT !.joins = Some(orders[best])]

generateAlternativeOrders(q0) ==
    IF Len(OrEmpty(q0.joins)) <= 1 THEN <<q0>>
    ELSE LET orders == generateJoinOrders(q0.joins[1])
             top == SubSeq(orders, 1, IF Len(orders) < 3 THEN Len(orders) ELSE 3)
         IN [i \in 1..Len(top) |-> [cloneIR(q0) EXCEPT !.joins = Some(top[i])]]

\* the index selector finds no index for any condition, join or sort, so the Map stays
\* empty; always a fresh clone
selectIndexes(q0) ==
    IF readsUndefinedOrderColumn(q0) THEN orderColumnError
    ELSE Returned([cloneIR(q0) EXCEPT !.selectedIndexes = Some("Map")])

\* ir.selectedIndexes?.has(table): undefined when the field is not set, false on the empty
\* Map, and a TypeError on the plain object a cloned Map turns into
hasSelectedIndexThrows(q0) == q0.selectedIndexes = Some("Object")

hasError == Thrown("TypeError", "ir.selectedIndexes?.has is not a function")

\* generatePlan: the root's children hold the base scan alone, and the root's cost is the
\* total over that tree; row counts and widths are not modelled
generatePlan(q0) ==
    IF hasSelectedIndexThrows(q0) THEN hasError
    ELSE IF readsUndefinedOrderColumn(q0) THEN orderColumnError
    ELSE LET scanNode == [type |-> "SCAN", operation |-> "Scan " \o q0.from, cost |-> scanCost(q0.from)]
         IN Returned([type |-> "SCAN", operation |-> "Result", cost |-> 0 + scanNode.cost,
                      children |-> <<scanNode>>])

generateAlternatives(q0) ==
    LET js == OrEmpty(q0.joins)
        altOrders == IF Len(js) > 1 THEN generateAlternativeOrders(q0) ELSE <<>>
        orderPlans == [i \in 1..Len(altOrders) |-> generatePlan(altOrders[i])]
        hashPlans == IF Len(js) > 0 THEN <<generatePlan([cloneIR(q0) EXCEPT !.joinMethod = Some("hash")])>> ELSE <<>>
        plans == orderPlans \o hashPlans
        failures == { i \in 1..Len(plans) : plans[i].kind = "throw" }
    IN IF failures # {} THEN plans[CHOOSE i \in failures : \A k \in failures : i <= k]
       ELSE Returned([i \in 1..Len(plans) |->
                        [description |-> IF i <= Len(orderPlans) THEN "Alternative join order"
                                         ELSE "Use hash join instead of nested loop",
                         plan |-> plans[i].value, cost |-> plans[i].value.cost]])

\* QueryCache.getKey: the JSON text of these seven fields; having is not among them
getKey(q0) ==
    [from |-> q0.from, columns |-> q0.columns, where |-> q0.where, joins |-> q0.joins,
     groupBy |-> q0.groupBy, orderBy |-> q0.orderBy, limit |-> q0.limit]

getFrequency(q0, freq) == IF getKey(q0) \in DOMAIN freq THEN freq[getKey(q0)] ELSE 0

isFrequentQuery(q0, freq) == getFrequency(q0, freq) > 10

isComplexAggregation(q0) == Len(OrEmpty(q0.groupBy)) > 0

RECURSIVE withColumnLhs(_, _)
withColumnLhs(conditions, i) ==
    IF i > Len(conditions) THEN <<>>
    ELSE (IF IsColumnRef(conditions[i].lhs) THEN <<conditions[i]>> ELSE <<>>) \o withColumnLhs(conditions, i + 1)

generateRecommendations(q0, freq) ==
    LET conds == withColumnLhs(OrEmpty(q0.where), 1)
    IN [i \in 1..Len(conds) |-> [type |-> "CREATE_INDEX", table |-> conds[i].lhs.table,
                                 columns |-> <<conds[i].lhs.column>>]]
       \o (IF isComplexAggregation(q0) /\ isFrequentQuery(q0, freq)
           THEN <<[type |-> "MATERIALIZED_VIEW"]>> ELSE <<>>)

\* QueryCache.get counts the lookup before it answers
countLookup(q0, freq) == (getKey(q0) :> (getFrequency(q0, freq) + 1)) @@ freq

cacheIndex(q0, entries) == { i \in 1..Len(entries) : entries[i].key = getKey(q0) }

\* QueryCache.set that never deletes
cacheSet_unbounded(q0, result, entries) ==
    IF cacheIndex(q0, entries) # {}
    THEN [entries EXCEPT ![CHOOSE i \in cacheIndex(q0, entries) : TRUE].result = result]
    ELSE Append(entries, [key |-> getKey(q0), result |-> result])

\* QueryCache.set: a new key goes last; beyond 1000 entries the oldest key is deleted
cacheSet(q0, result, entries) ==
    LET hit == cacheIndex(q0, entries)
        stored == IF hit # {} THEN [entries EXCEPT ![CHOOSE i \in hit : TRUE].result = result]
                  ELSE Append(entries, [key |-> getKey(q0), result |-> result])
    IN IF Len(stored) > 1000 THEN Tail(stored) ELSE stored

applied(type, impact, before, after) ==
    [type |-> type, impact |-> impact, costReduction |-> estimate(before) - estimate(after)]

\* the result object, once plan and alternatives are there
resultOf(optimized0, plan, alternatives, optimizations, freq) ==
    IF plan.kind = "throw" THEN plan
    ELSE IF alternatives.kind = "throw" THEN alternatives
    ELSE Returned([optimizedIR |-> optimized0,
                   plan |-> plan.value,
                   estimatedCost |-> estimate(optimized0),
                   optimizations |-> optimizations,
                   alternatives |-> alternatives.value,
                   recommendations |-> generateRecommendations(optimized0, freq)])

\* 5. index selection: always recorded; then plan, cost, alternatives, recommendations
afterIndexSelection(reordered, withIndexes, optimizations, freq) ==
    IF withIndexes.kind = "throw" THEN withIndexes
    ELSE resultOf(withIndexes.value, generatePlan(withIndexes.value), generateAlternatives(withIndexes.value),
                  Append(optimizations, applied("INDEX_SELECTION", "HIGH", reordered, withIndexes.value)), freq)

\* 4. join order: attempted, and then recorded, only with more than one join
afterJoinOrder(pruned, reordered, optimizations, freq) ==
    afterIndexSelection(reordered, selectIndexes(reordered),
                        IF Len(OrEmpty(pruned.joins)) > 1
                        THEN Append(optimizations, applied("JOIN_REORDERING", "HIGH", pruned, reordered))
                        ELSE optimizations,
                        freq)

\* 3. column pruning: always recorded
afterPruning(pushedDown, pruned, optimizations, freq) ==
    IF pruned.kind = "throw" THEN pruned
    ELSE afterJoinOrder(pruned.value,
                        IF Len(OrEmpty(pruned.value.joins)) > 1 THEN JoinOptimizer_optimize(pruned.value)
                        ELSE pruned.value,
                        Append(optimizations, applied("COLUMN_PRUNING", "MEDIUM", pushedDown, pruned.value)),
                        freq)

\* 2. predicate pushdown: recorded unless the pass handed its input back
afterPushdown(simplified, pushedDown, optimizations, freq) ==
    afterPruning(pushedDown, pruneColumns(pushedDown),
                 IF pushPredicatesReturnsInput(simplified) THEN optimizations
                 ELSE Append(optimizations, applied("PREDICATE_PUSHDOWN", "HIGH", simplified, pushedDown)),
                 freq)

\* 1. constant folding: simplify always returns a new object, so it is always recorded
afterSimplify(start, simplified, freq) ==
    afterPushdown(simplified, pushPredicates(simplified),
                  <<applied("CONSTANT_FOLDING", "LOW", start, simplified)>>, freq)

\* AdvancedQueryOptimizer.optimize on a cache miss: the passes, then plan, cost,
\* alternatives and recommendations.  A pass is recorded whenever the object it returns is
\* not the object it was given.
optimizeMiss(q0, freq) == afterSimplify(cloneIR(q0), simplify(cloneIR(q0)), freq)

\* this.cache.set(ir, result) happens only when nothing threw on the way
missed(q0, entries, counted, outcome) ==
    [outcome |-> outcome,
     cache |-> IF outcome.kind = "ok" THEN cacheSet(q0, outcome.value, entries) ELSE entries,
     frequency |-> counted]

lookedUp(q0, entries, counted, hit) ==
    IF hit # {}
    THEN [outcome |-> Returned(entries[CHOOSE i \in hit : TRUE].result), cache |-> entries, frequency |-> counted]
    ELSE missed(q0, entries, counted, optimizeMiss(q0, counted))

\* AdvancedQueryOptimizer.optimize: the outcome of the call, and the cache and the
\* frequency table it leaves behind
optimize(q0, entries, freq) == lookedUp(q0, entries, countLookup(q0, freq), cacheIndex(q0, entries))

MaxWhere == 2

samePushable == [lhs |-> ref("orders", "status"), op |-> "=", rhs |-> [value |-> [str |-> "completed"]]]

sameTable == [lhs |-> ref("orders", "total"), op |-> ">", rhs |-> ref("orders", "id")]

crossTable == [lhs |-> ref("orders", "customer_id"), op |-> "=", rhs |-> ref("customers", "id")]

literalOnly == [lhs |-> [value |-> [num |-> 1]], op |-> "=", rhs |-> [value |-> [num |-> 1]]]

AdvancedConditionPool == {samePushable, sameTable, crossTable, literalOnly}

AdvancedWheres == {None} \cup { Some(w) : w \in ListsUpTo(AdvancedConditionPool, MaxWhere) }

AdvancedInputs ==
    { AdvancedIR(SelectQueryIR("orders", <<ref("orders", "status"), [func |-> "sum", expr |-> ref("orders", "total")]>>,
                               js, w, g, None, o, None)) :
        js \in {None, Some(<<>>), Some(<<customersToOrders>>), Some(<<ordersToItems, customersToOrders>>)},
        w \in AdvancedWheres,
        g \in {None, Some(<<ref("orders", "status")>>)},
        o \in {None, Some(<<>>), Some(<<[expr |-> ref("orders", "total"), direction |-> "desc"]>>)} }

\* the queries an earlier request may have left in the cache, beside the query itself:
\* the short ones, which are what a query turns into once its conditions are pushed
EarlierInputs ==
    { x \in AdvancedInputs : x.joins = None /\ x.groupBy = None /\ x.orderBy = None /\ Len(OrEmpty(x.where)) <= 1 }

InitAdv ==
    /\ Idle
    /\ pc = "start"
    /\ prompt = "" /\ schema = [tables |-> <<>>] /\ datasets = NoDatasets
    /\ ir \in { Returned(x) : x \in AdvancedInputs }
    /\ optimized = NotRun

\* what a call leaves on the optimizer
Leaves(call) == cache' = call.cache /\ frequency' = call.frequency /\ calls' = calls + 1

EarlierCall(call) ==
    /\ call.outcome.kind = "ok"
    /\ Leaves(call)
    /\ UNCHANGED <<pc, prompt, schema, dialect, datasets, ir, optimized, sql, rows, r1, r2, heap, entities>>

\* an earlier optimize call on the same optimizer, made while its cache was still empty
OptimizeEarlier(x) == pc = "start" /\ cache = <<>> /\ EarlierCall(optimize(x, cache, frequency))

FirstCall(call) ==
    /\ r1' = call.outcome
    /\ pc' = IF call.outcome.kind = "throw" THEN "failed" ELSE "first"
    /\ Leaves(call)
    /\ UNCHANGED <<prompt, schema, dialect, datasets, ir, optimized, sql, rows, r2, heap, entities>>

\* const r1 = optimizer.optimize(ir)
OptimizeFirst == pc = "start" /\ FirstCall(optimize(ir.value, cache, frequency))

SecondCall(call) ==
    /\ r2' = call.outcome
    /\ pc' = IF call.outcome.kind = "throw" THEN "failed" ELSE "second"
    /\ Leaves(call)
    /\ UNCHANGED <<prompt, schema, dialect, datasets, ir, optimized, sql, rows, r1, heap, entities>>

\* const r2 = optimizer.optimize(r1.optimizedIR)
OptimizeAgain == pc = "first" /\ SecondCall(optimize(r1.value.optimizedIR, cache, frequency))

NextAdv == (\E x \in EarlierInputs \cup {ir.value} : OptimizeEarlier(x)) \/ OptimizeFirst \/ OptimizeAgain

SpecAdv == InitAdv /\ [][NextAdv]_vars

\* C10: whenever optimize(ir) returned r1 and optimize(r1.optimizedIR) then returned r2,
\* r2.estimatedCost equals r1.estimatedCost and every costReduction listed in
\* r2.optimizations is 0; and the second call returns whenever the first did.
C10_ReoptimizeGainsNothing ==
    /\ (pc = "failed" /\ r1.kind = "ok") => r2.kind # "throw"
    /\ pc = "second" =>
          /\ r2.value.estimatedCost = r1.value.estimatedCost
          /\ \A i \in 1..Len(r2.value.optimizations) : r2.value.optimizations[i].costReduction = 0

\* the first call did reduce the cost (a duplicate or a pushed condition left where), and
\* the second call ran the passes again on a cache miss
C10_Witness ==
    /\ pc = "second"
    /\ \E i \in 1..Len(r1.value.optimizations) : r1.value.optimizations[i].costReduction > 0
    /\ r1.value.estimatedCost < estimate(ir.value)
    /\ Len(cache) = 2
    /\ Len(r2.value.optimizations) >= 4

(***************************************************************************)
(* optimizeIR on the object graph.  The heap is the sequence of the        *)
(* objects allocated so far and an address is an index into it: an array   *)
(* holds the addresses of its elements, an element (ColumnRef,             *)
(* AggregateSpec, JoinSpec, Condition) holds its value, an IR object       *)
(* holds the addresses of its arrays.  Here ir and optimized carry the     *)
(* address (at) of the IR object; ir.value is the IR as it was built.      *)
(***************************************************************************)
ArrayFields == <<"columns", "joins", "where", "groupBy", "having", "orderBy">>

\* a literal array of element objects: the elements first, then the array
allocArray(h, vals) ==
    Append(h \o [i \in 1..Len(vals) |-> [kind |-> "object", value |-> vals[i]]],
           [kind |-> "array", items |-> [i \in 1..Len(vals) |-> Len(h) + i]])

FieldOf(x, f) == IF f = "columns" THEN Some(x.columns) ELSE x[f]

\* the object graph of an IR literal; the IR object is allocated last
RECURSIVE storeFrom(_, _, _, _)
storeFrom(h, x, refs, i) ==
    IF i > Len(ArrayFields)
    THEN Append(h, [kind |-> "ir", from |-> x.from, limit |-> x.limit, refs |-> refs])
    ELSE IF FieldOf(x, ArrayFields[i]) = None
    THEN storeFrom(h, x, (ArrayFields[i] :> None) @@ refs, i + 1)
    ELSE storeFrom(allocArray(h, FieldOf(x, ArrayFields[i])[1]), x,
                   (ArrayFields[i] :> Some(Len(h) + Len(FieldOf(x, ArrayFields[i])[1]) + 1)) @@ refs,
                   i + 1)

store(x) == storeFrom(<<>>, x, <<>>, 1)

\* the values held by the elements of the array at address a
Values(h, a) == [i \in 1..Len(h[a].items) |-> h[h[a].items[i]].value]

OptionalValues(h, r) == IF r = None THEN None ELSE Some(Values(h, r[1]))

\* the IR denoted by the IR object at address a
Denote(h, a) ==
    SelectQueryIR(h[a].from, Values(h, h[a].refs["columns"][1]),
                  OptionalValues(h, h[a].refs["joins"]), OptionalValues(h, h[a].refs["where"]),
                  OptionalValues(h, h[a].refs["groupBy"]), OptionalValues(h, h[a].refs["having"]),
                  OptionalValues(h, h[a].refs["orderBy"]), h[a].limit)

\* for (const g of next.groupBy) if (!exists) sel.unshift(g): g itself is unshifted
RECURSIVE ensureGroupedAt(_, _, _, _)
ensureGroupedAt(h, sel, groupBy, i) ==
    IF i > Len(groupBy) THEN sel
    ELSE ensureGroupedAt(h,
            IF Projects([k \in 1..Len(sel) |-> h[sel[k]].value], h[groupBy[i]].value)
            THEN sel ELSE <<groupBy[i]>> \o sel,
            groupBy, i + 1)

\* next.groupBy.filter(...): a new array of the retained elements
RECURSIVE dedupeAt(_, _, _, _)
dedupeAt(h, groupBy, i, seen) ==
    IF i > Len(groupBy) THEN <<>>
    ELSE IF groupKey(h[groupBy[i]].value) \in seen THEN dedupeAt(h, groupBy, i + 1, seen)
    ELSE <<groupBy[i]>> \o dedupeAt(h, groupBy, i + 1, seen \cup {groupKey(h[groupBy[i]].value)})

\* return next: const next = { ...ir } with the fields reassigned so far
returnNext(h, next) == Append(h, next)

\* if (next.groupBy) next.groupBy = next.groupBy.filter(...)
dedupedNext(h, next) ==
    IF next.refs["groupBy"] = None THEN returnNext(h, next)
    ELSE returnNext(Append(h, [kind |-> "array", items |-> dedupeAt(h, h[next.refs["groupBy"][1]].items, 1, {})]),
                    [next EXCEPT !.refs["groupBy"] = Some(Len(h) + 1)])

\* if (next.groupBy?.length) { const sel = next.columns.slice(); ...; next.columns = sel }
groupedNext(h, next) ==
    IF next.refs["groupBy"] = None \/ Len(h[next.refs["groupBy"][1]].items) = 0 THEN dedupedNext(h, next)
    ELSE dedupedNext(Append(h, [kind |-> "array",
                                items |-> ensureGroupedAt(h, h[next.refs["columns"][1]].items,
                                                          h[next.refs["groupBy"][1]].items, 1)]),
                     [next EXCEPT !.refs["columns"] = Some(Len(h) + 1)])

\* optimizeIR(ir) for the IR object at address a: the heap after the call, whose last
\* object is the returned IR
optimizeIRAt(h, a) == groupedNext(h, h[a])

AliasConditions == {[lhs |-> ref("orders", "status"), op |-> "=", rhs |-> [value |-> [str |-> "completed"]]]}

AliasInputs ==
    { SelectQueryIR("orders", cs, j, w, g, None, None, None) :
        cs \in ListsUpTo(ColumnPool, MaxColumns) \ {<<>>},
        j \in {None, Some(<<customersToOrders>>)},
        w \in {None} \cup { Some(l) : l \in ListsUpTo(AliasConditions, MaxConditions) },
        g \in {None} \cup { Some(l) : l \in ListsUpTo(GroupPool, MaxGroupBy) } }

InitAlias ==
    /\ dialect = "sqlite" /\ sql = NotRun /\ rows = NotRun
    /\ cache = <<>> /\ frequency = <<>> /\ calls = 0 /\ r1 = NotRun /\ r2 = NotRun
    /\ entities = NotRun
    /\ pc = "parsed"
    /\ prompt = "" /\ schema = [tables |-> <<>>] /\ datasets = NoDatasets
    /\ \E x \in AliasInputs :
          /\ heap = store(x)
          /\ ir = [kind |-> "ok", value |-> x, at |-> Len(store(x))]
    /\ optimized = NotRun

\* const optimized = optimizeIR(ir)
OptimizeAt ==
    /\ pc = "parsed"
    /\ heap' = optimizeIRAt(heap, ir.at)
    /\ optimized' = [kind |-> "ok", at |-> Len(heap')]
    /\ pc' = "optimized"
    /\ UNCHANGED <<prompt, schema, dialect, datasets, ir, sql, rows, cache, frequency, calls, r1, r2, entities>>

\* a later optimized[f].push(v) by a consumer of the result
PushOnResult(f, v) ==
    /\ pc = "optimized"
    /\ heap[optimized.at].refs[f] # None
    /\ heap' = Append([heap EXCEPT ![heap[optimized.at].refs[f][1]].items = Append(@, Len(heap) + 1)],
                      [kind |-> "object", value |-> v])
    /\ pc' = "mutated"
    /\ UNCHANGED <<prompt, schema, dialect, datasets, ir, optimized, sql, rows, cache, frequency, calls, r1, r2, entities>>

\* a later optimized[f][0].alias = 'm' by a consumer of the result
WriteResultElement(f) ==
    /\ pc = "optimized"
    /\ heap[optimized.at].refs[f] # None
    /\ Len(heap[heap[optimized.at].refs[f][1]].items) > 0
    /\ heap' = [heap EXCEPT ![heap[heap[optimized.at].refs[f][1]].items[1]].value =
                                 [alias |-> "m"] @@ @]
    /\ pc' = "mutated"
    /\ UNCHANGED <<prompt, schema, dialect, datasets, ir, optimized, sql, rows, cache, frequency, calls, r1, r2, entities>>

NextAlias ==
    \/ OptimizeAt
    \/ \E f \in {"columns", "where", "groupBy"} : PushOnResult(f, ref("orders", "id"))
    \/ \E f \in {"columns", "groupBy"} : WriteResultElement(f)

SpecAlias == InitAlias /\ [][NextAlias]_vars

\* the arrays and elements reachable from the IR object at address a
Reachable(h, a) ==
    UNION { {h[a].refs[f][1]} \cup SeqToSet(h[h[a].refs[f][1]].items) :
            f \in {g \in DOMAIN h[a].refs : h[a].refs[g] # None} }

\* C11: the IR returned by optimizeIR shares no array and no element object with its
\* input, and no later mutation of the result changes the input IR
C11_ResultIndependentOfInput ==
    pc \in {"optimized", "mutated"} =>
        /\ Reachable(heap, optimized.at) \cap Reachable(heap, ir.at) = {}
        /\ Denote(heap, ir.at) = ir.value

(***************************************************************************)
(* JoinOptimizer called on IRs with growing join lists                     *)
(***************************************************************************)
MaxJoins == 5

\* the join count from which the search is to be heuristic ("exhaustive below N = 5")
JoinSearchCap == 5

ordersToMerchants == join("inner", ref("orders", "merchant_id"), ref("merchants", "merchant_id"))

itemsToProducts == join("left", ref("order_items", "product"), ref("products", "name"))

invoicesToOrders == join("left", ref("invoices", "id"), ref("orders", "id"))

JoinChain == <<customersToOrders, ordersToItems, ordersToMerchants, restaurantsToMerchants, itemsToProducts, invoicesToOrders>>

JoinInputs ==
    { AdvancedIR(SelectQueryIR(f, <<ref("orders", "status")>>, js, w, g, None, o, None)) :
        f \in {"orders", "customers"},
        js \in {None} \cup { Some(SubSeq(JoinChain, 1, n)) : n \in 0..MaxJoins },
        w \in {None, Some(<<samePushable>>)},
        g \in {None, Some(<<ref("orders", "status")>>)},
        o \in {None, Some(<<[expr |-> ref("orders", "total"), direction |-> "desc"]>>)} }

InitJoin ==
    /\ Idle
    /\ pc = "start"
    /\ prompt = "" /\ schema = [tables |-> <<>>] /\ datasets = NoDatasets
    /\ ir \in { Returned(x) : x \in JoinInputs }
    /\ optimized = NotRun

\* const reordered = this.joinOptimizer.optimize(optimized)
Reorder ==
    /\ pc = "start"
    /\ r1' = Returned(JoinOptimizer_optimize(ir.value))
    /\ pc' = "reordered"
    /\ UNCHANGED <<prompt, schema, dialect, datasets, ir, optimized, sql, rows, cache, frequency, calls, r2, heap, entities>>

\* const alternativeJoinOrders = this.joinOptimizer.generateAlternativeOrders(ir)
AlternativeOrders ==
    /\ pc = "reordered"
    /\ r2' = Returned(generateAlternativeOrders(ir.value))
    /\ pc' = "alternatives"
    /\ UNCHANGED <<prompt, schema, dialect, datasets, ir, optimized, sql, rows, cache, frequency, calls, r1, heap, entities>>

NextJoin == Reorder \/ AlternativeOrders

SpecJoin == InitJoin /\ [][NextJoin]_vars

RECURSIVE Factorial(_)
Factorial(n) == IF n <= 1 THEN 1 ELSE n * Factorial(n - 1)

\* the candidate orders a JoinOptimizer call builds for the joins of q0
candidateOrders(q0) == IF Len(OrEmpty(q0.joins)) <= 1 THEN <<>> ELSE generateJoinOrders(q0.joins[1])

\* C12: at or above the cap the join-order search is not exhaustive: the candidate orders
\* built are fewer than the permutations of the joins and no more than the exhaustive
\* search builds below the cap
C12_JoinSearchCapped ==
    (pc \in {"reordered", "alternatives"} /\ Len(OrEmpty(ir.value.joins)) >= JoinSearchCap) =>
        /\ Len(candidateOrders(ir.value)) < Factorial(Len(ir.value.joins[1]))
        /\ Len(candidateOrders(ir.value)) <= Factorial(JoinSearchCap - 1)

(***************************************************************************)
(* One optimizer serving many requests.  optimize is synchronous from its  *)
(* cache lookup to its cache insert, so requests that arrive concurrently  *)
(* run their optimize calls one after the other, in any order.  A request  *)
(* asks for a query not seen before or, once the cache is nearly full,     *)
(* asks again for the oldest queries or for the newest one.  The runs      *)
(* start from the new optimizer and from one whose cache is nearly full.   *)
(***************************************************************************)
MaxKeys == 1003

MaxRepeats == 2

WarmKeys == 998

\* queries that differ in their limit, hence in their cache key
KeyedQuery(n) == AdvancedIR(SelectQueryIR("orders", <<ref("orders", "id")>>, None, None, None, None, None, Some(n)))

\* the optimizer after n requests for n different queries, none of them repeated
WarmCache(n) == [i \in 1..n |-> [key |-> getKey(KeyedQuery(i)), result |-> optimizeMiss(KeyedQuery(i), countLookup(KeyedQuery(i), <<>>)).value]]

WarmFrequency(n) == [k \in {getKey(KeyedQuery(i)) : i \in 1..n} |-> 1]

\* a new optimizer, or one that has served WarmKeys different queries
InitCache ==
    /\ dialect = "sqlite" /\ sql = NotRun /\ rows = NotRun /\ r1 = NotRun /\ r2 = NotRun
    /\ heap = <<>> /\ entities = NotRun
    /\ pc = "start"
    /\ prompt = "" /\ schema = [tables |-> <<>>] /\ datasets = NoDatasets
    /\ ir = NotRun /\ optimized = NotRun
    /\ \E n \in {0, WarmKeys} : cache = WarmCache(n) /\ frequency = WarmFrequency(n) /\ calls = n

Served(x, call) ==
    /\ ir' = Returned(x)
    /\ r1' = call.outcome
    /\ pc' = "serving"
    /\ Leaves(call)
    /\ UNCHANGED <<prompt, schema, dialect, datasets, optimized, sql, rows, r2, heap, entities>>

\* the number of different queries requested so far (QueryCache.get records each key)
seenKeys == Cardinality(DOMAIN frequency)

\* a request for a query not asked before
RequestNew ==
    /\ seenKeys < MaxKeys
    /\ Served(KeyedQuery(seenKeys + 1), optimize(KeyedQuery(seenKeys + 1), cache, frequency))

\* a request for a query asked before: one of the two oldest or the newest
RequestAgain(n) ==
    /\ Len(cache) >= 999
    /\ calls - seenKeys < MaxRepeats
    /\ n \in {1, 2, seenKeys}
    /\ Served(KeyedQuery(n), optimize(KeyedQuery(n), cache, frequency))

NextCache == RequestNew \/ \E n \in 1..MaxKeys : RequestAgain(n)

SpecCache == InitCache /\ [][NextCache]_vars

\* C13: after every optimize call the cache holds at most 1000 entries and the entry of
\* the query just served; a call that changes the cache appends that entry, and when the
\* cache was full it deletes exactly the oldest-inserted entry and nothing else
C13_CacheBoundedOldestEvicted ==
    [][/\ Len(cache') <= 1000
       /\ r1'.kind = "ok" => \E i \in 1..Len(cache') : cache'[i] = [key |-> getKey(ir'.value), result |-> r1'.value]
       /\ cache' # cache =>
             cache' = Append(IF Len(cache) < 1000 THEN cache ELSE Tail(cache),
                             [key |-> getKey(ir'.value), result |-> r1'.value])]_vars

\* the cache is full, the first query asked has been evicted and asked for again, and the
\* entry of the query just served is the last one
C13_Witness ==
    /\ Len(cache) = 1000
    /\ calls > seenKeys /\ seenKeys > 1000
    /\ \A i \in 1..3 : cache[i].key # getKey(KeyedQuery(1))
    /\ ir.value = KeyedQuery(1)
    /\ cache[1000].key = getKey(KeyedQuery(1))

(***************************************************************************)
(* One optimizer, one earlier request, then the request under study        *)
(***************************************************************************)
totalAbove == [lhs |-> ref("orders", "total"), op |-> ">", rhs |-> [value |-> [num |-> 100]]]

\* queries without joins and ordering, with and without a having clause
HistoryInputs ==
    { AdvancedIR(SelectQueryIR("orders", <<ref("orders", "status"), [func |-> "sum", expr |-> ref("orders", "total")]>>,
                               None, w, g, h, None, None)) :
        w \in AdvancedWheres,
        g \in {None, Some(<<ref("orders", "status")>>)},
        h \in {None, Some(<<totalAbove>>)} }

InitHistory ==
    /\ Idle
    /\ pc = "start"
    /\ prompt = "" /\ schema = [tables |-> <<>>] /\ datasets = NoDatasets
    /\ ir \in { Returned(x) : x \in HistoryInputs }
    /\ optimized = NotRun

NextHistory == (\E x \in HistoryInputs : OptimizeEarlier(x)) \/ OptimizeFirst

SpecHistory == InitHistory /\ [][NextHistory]_vars

\* C14: whatever was optimized before, the result returned for an IR is the result a new
\* optimizer computes for it, in optimizedIR, plan, estimatedCost, optimizations,
\* alternatives and recommendations
C14_ResultIndependentOfHistory ==
    pc = "first" => r1 = optimize(ir.value, <<>>, <<>>).outcome

(***************************************************************************)
(* generateSQL called on IRs with every clause present, empty or absent    *)
(***************************************************************************)
ClauseInputs ==
    { SelectQueryIR("orders", cs, js, w, g, None, o, l) :
        cs \in {<<>>, <<ref("orders", "*")>>, <<ref("orders", "status"), [func |-> "sum", expr |-> ref("orders", "total")]>>},
        js \in {None, Some(<<>>), Some(<<ordersToItems>>), Some(<<ordersToItems, customersToOrders>>)},
        w \in {None, Some(<<>>), Some(<<samePushable>>), Some(<<samePushable, totalAbove>>)},
        g \in {None, Some(<<>>), Some(<<ref("orders", "status")>>)},
        o \in OrderByLists \cup {Some(<<>>)},
        l \in Limits }

InitClause ==
    /\ Idle
    /\ pc = "optimized"
    /\ prompt = "" /\ schema = [tables |-> <<>>] /\ datasets = NoDatasets
    /\ ir = NotRun
    /\ optimized \in { Returned(x) : x \in ClauseInputs }

NextClause == \E d \in MappedDialects : Generate(d)

SpecClause == InitClause /\ [][NextClause]_vars

\* the positions at which the lines of a text start
LineStarts(s) == {1} \cup { i + 1 : i \in { k \in 1..Len(s) : CharAt(s, k) = "\n" } }

\* the length of the line that starts at position a
LineLength(s, a) ==
    LET ends == { k \in a..Len(s) : CharAt(s, k) = "\n" }
    IN IF ends = {} THEN Len(s) - a + 1 ELSE (CHOOSE k \in ends : \A m \in ends : k <= m) - a

ClauseKeywords == <<"SELECT ", "FROM ", "INNER JOIN ", "WHERE ", "GROUP BY ", "ORDER BY ", "LIMIT ", "LEFT JOIN ">>

\* the place in the fixed clause order of the line starting at a: 1 SELECT, 2 FROM,
\* 3 JOIN, 4 WHERE, 5 GROUP BY, 6 ORDER BY, 7 LIMIT; 0 when the line is no clause
ClauseRank(s, a) ==
    LET known == { k \in 1..Len(ClauseKeywords) : StartsAt(s, a, ClauseKeywords[k]) }
    IN IF known = {} THEN 0 ELSE IF 8 \in known THEN 3 ELSE CHOOSE k \in known : TRUE

\* the line starting at a is a clause keyword with nothing after it
BareKeyword(s, a) ==
    \E k \in 1..Len(ClauseKeywords) : StartsAt(s, a, ClauseKeywords[k]) /\ LineLength(s, a) <= Len(ClauseKeywords[k])

\* the clauses the parts of an IR call for
ClausesOf(q0) ==
    {2} \cup (IF Len(q0.columns) > 0 THEN {1} ELSE {})
        \cup (IF NonEmpty(q0.joins) THEN {3} ELSE {})
        \cup (IF NonEmpty(q0.where) THEN {4} ELSE {})
        \cup (IF NonEmpty(q0.groupBy) THEN {5} ELSE {})
        \cup (IF NonEmpty(q0.orderBy) THEN {6} ELSE {})
        \cup (IF q0.limit # None THEN {7} ELSE {})

\* C15: the lines of the SQL are clauses in the order SELECT, FROM, JOIN, WHERE, GROUP BY,
\* ORDER BY, LIMIT, each at most once; a clause whose IR part is absent or empty has no
\* line, and no line is blank or a bare keyword
C15_ClauseOrderAndOmission ==
    sql.kind = "ok" =>
        /\ \A a \in LineStarts(sql.value) : ClauseRank(sql.value, a) # 0 /\ ~BareKeyword(sql.value, a)
        /\ \A a, b \in LineStarts(sql.value) : a < b => ClauseRank(sql.value, a) < ClauseRank(sql.value, b)
        /\ { ClauseRank(sql.value, a) : a \in LineStarts(sql.value) } \subseteq ClausesOf(optimized.value)

(***************************************************************************)
(* parseIntentToIR on prompts that ask for a count                         *)
(***************************************************************************)
CountPrompts ==
    { "count orders", "Count orders", "count orders per customer", "count total orders",
      "count sales by customer", "how many orders", "count customers in the last 30 days" }

InitCount ==
    /\ Idle
    /\ pc = "start"
    /\ prompt \in CountPrompts
    /\ schema \in Schemas
    /\ datasets = NoDatasets
    /\ ir = NotRun /\ optimized = NotRun

NextCount == Parse

SpecCount == InitCount /\ [][NextCount]_vars

\* the text contains w as a word of its own
ContainsWord(text, w) ==
    \E i \in 1..(Len(text) - Len(w) + 1) :
        /\ StartsAt(text, i, w)
        /\ i = 1 \/ CharAt(text, i - 1) = " "
        /\ i + Len(w) > Len(text) \/ CharAt(text, i + Len(w)) = " "

countStar(base) == [func |-> "count", expr |-> ref(base, "*"), alias |-> "count"]

\* C16: an IR built for a prompt containing the word "count" projects COUNT over base.*,
\* and "count orders" over a schema of orders alone is exactly from orders, columns
\* [count(orders.*)], no groupBy, no joins
C16_CountProjectsCountStar ==
    (pc = "parsed" /\ ContainsWord(toLowerCase(prompt), "count")) =>
        /\ \E i \in 1..Len(ir.value.columns) : ir.value.columns[i] = countStar(ir.value.from)
        /\ (prompt = "count orders" /\ Len(schema.tables) = 1 /\ schema.tables[1].name = "orders") =>
              ir.value = SelectQueryIR("orders", <<countStar("orders")>>, None, None, None, None, None, None)

\* ---------------------------------------------------------------------------
\* EntityRecognizer (src/dist/nlp/entity/entity-recognizer.js).
\* In the specification SpecEntity the variable prompt holds the token list the
\* tokenizer produced for the prompt, and entities the list recognize returns.
\* A confidence is the exact fraction n/d of the number the code computes.
\* ---------------------------------------------------------------------------

Conf(n, d) == [n |-> n, d |-> d]

\* a > b
ConfGt(a, b) == a.n * b.d > b.n * a.d

\* a === b
ConfEq(a, b) == a.n * b.d = b.n * a.d

\* a * b
ConfTimes(a, b) == Conf(a.n * b.n, a.d * b.d)

\* Math.min(a, b)
ConfMin(a, b) == IF ConfGt(a, b) THEN b ELSE a

\* the common synonyms of buildSynonymMap; the schemas modelled declare no alias
buildSynonymMap ==
    ("customer" :> "customer") @@ ("client" :> "customer") @@ ("buyer" :> "customer") @@
    ("purchaser" :> "customer") @@ ("product" :> "product") @@ ("item" :> "product") @@
    ("good" :> "product") @@ ("merchandise" :> "product") @@ ("order" :> "order") @@
    ("purchase" :> "order") @@ ("transaction" :> "order") @@ ("employee" :> "employee") @@
    ("staff" :> "employee") @@ ("worker" :> "employee") @@ ("personnel" :> "employee") @@
    ("department" :> "department") @@ ("dept" :> "department") @@
    ("division" :> "department") @@ ("unit" :> "department")

\* this.synonymMap.get(normalized) === targetNorm
synonymIs(normalized, targetNorm) ==
    normalized \in DOMAIN buildSynonymMap /\ buildSynonymMap[normalized] = targetNorm

\* matches, given targetNorm = target.toLowerCase(); a lower-cased string has no
\* capital letter, so camelSpaced is targetNorm trimmed, and the names modelled
\* carry no surrounding white space
matchesNorm(normalized, targetNorm) ==
    \/ normalized = targetNorm
    \/ synonymIs(normalized, targetNorm)
    \/ normalized = replaceAll(targetNorm, "_", " ")

matches(normalized, target) == matchesNorm(normalized, toLowerCase(target))

NoMetadata == [table |-> None, ambiguous |-> FALSE, possibleTables |-> <<>>, pattern |-> None]

\* metadata: { table } and metadata: { table: table.name, column }: the table is kept by name
TableMetadata(name) == [NoMetadata EXCEPT !.table = Some(name)]

PatternMetadata(pattern) == [NoMetadata EXCEPT !.pattern = Some(pattern)]

Entity(token, type, confidence, resolvedName, metadata) ==
    [text |-> token.text, type |-> type, confidence |-> confidence, position |-> token.position,
     resolvedName |-> resolvedName, metadata |-> metadata]

\* index of the first column of the table that the token matches, 0 when none does
RECURSIVE firstMatchingColumn(_, _, _)
firstMatchingColumn(normalized, columns, c) ==
    IF c > Len(columns) THEN 0
    ELSE IF matches(normalized, columns[c].name) THEN c
    ELSE firstMatchingColumn(normalized, columns, c + 1)

\* the loop over this.schema.functions of directMatch
RECURSIVE directMatchFunction(_, _, _)
directMatchFunction(token, functions, f) ==
    IF f > Len(functions) THEN None
    ELSE IF matches(token.normalized, functions[f].name)
         THEN Some(Entity(token, "FUNCTION", Conf(1, 1), functions[f].name, NoMetadata))
    ELSE directMatchFunction(token, functions, f + 1)

directMatchColumn(token, table, c) ==
    Some(Entity(token, "COLUMN", Conf(9, 10), table.columns[c].name, TableMetadata(table.name)))

\* the loop over this.schema.tables of directMatch: the table's name, then its columns
RECURSIVE directMatchFrom(_, _, _)
directMatchFrom(token, sch, t) ==
    IF t > Len(sch.tables) THEN directMatchFunction(token, sch.functions, 1)
    ELSE IF matches(token.normalized, sch.tables[t].name)
         THEN Some(Entity(token, "TABLE", Conf(1, 1), sch.tables[t].name, TableMetadata(sch.tables[t].name)))
    ELSE IF firstMatchingColumn(token.normalized, sch.tables[t].columns, 1) > 0
         THEN directMatchColumn(token, sch.tables[t], firstMatchingColumn(token.normalized, sch.tables[t].columns, 1))
    ELSE directMatchFrom(token, sch, t + 1)

directMatch(token, sch) == directMatchFrom(token, sch, 1)

Min3(a, b, c) == IF a <= b /\ a <= c THEN a ELSE IF b <= c THEN b ELSE c

\* row i of dp, cells 0..j-1 already in acc (acc[k] is dp[i][k-1], prev[k] is dp[i-1][k-1])
RECURSIVE levenshteinRow(_, _, _, _, _)
levenshteinRow(prev, ch, str2, j, acc) ==
    IF j > Len(str2) THEN acc
    ELSE levenshteinRow(prev, ch, str2, j + 1,
            Append(acc, IF ch = CharAt(str2, j) THEN prev[j]
                        ELSE 1 + Min3(prev[j + 1], acc[j], prev[j])))

\* the rows of dp from row i on, prev being row i - 1 (never empty: it has Len(str2) + 1
\* cells); reading its length has the row computed before the next one is built on it
RECURSIVE levenshteinRows(_, _, _, _)
levenshteinRows(str1, str2, i, prev) ==
    IF i > Len(str1) \/ Len(prev) = 0 THEN prev[Len(str2) + 1]
    ELSE levenshteinRows(str1, str2, i + 1, levenshteinRow(prev, CharAt(str1, i), str2, 1, <<i>>))

levenshteinDistance(str1, str2) ==
    levenshteinRows(str1, str2, 1, [j \in 1..(Len(str2) + 1) |-> j - 1])

MaxOf(a, b) == IF a >= b THEN a ELSE b

similarityOf(distance, maxLength, prefix) ==
    IF maxLength = 0 THEN Conf(1, 1)
    ELSE IF prefix THEN ConfMin(ConfTimes(Conf(maxLength - distance, maxLength), Conf(6, 5)), Conf(1, 1))
    ELSE Conf(maxLength - distance, maxLength)

calculateSimilarity(str1, str2) ==
    similarityOf(levenshteinDistance(str1, str2), MaxOf(Len(str1), Len(str2)),
                 StartsAt(str2, 1, str1) \/ StartsAt(str1, 1, str2))

RECURSIVE columnTargets(_, _, _)
columnTargets(tables, t, c) ==
    IF t > Len(tables) THEN <<>>
    ELSE IF c > Len(tables[t].columns) THEN columnTargets(tables, t + 1, 1)
    ELSE <<[type |-> "COLUMN", resolved |-> tables[t].columns[c].name,
            metadata |-> TableMetadata(tables[t].name)]>> \o columnTargets(tables, t, c + 1)

\* what FuzzyMatcher.match compares the text with, in the order of its three loops
fuzzyTargets(sch) ==
    [t \in 1..Len(sch.tables) |->
        [type |-> "TABLE", resolved |-> sch.tables[t].name, metadata |-> TableMetadata(sch.tables[t].name)]]
    \o columnTargets(sch.tables, 1, 1)
    \o [f \in 1..Len(sch.functions) |->
        [type |-> "FUNCTION", resolved |-> sch.functions[f].name, metadata |-> NoMetadata]]

betterMatch(target, score, best) ==
    IF ConfGt(score, IF best = None THEN Conf(0, 1) ELSE best[1].score)
    THEN Some([type |-> target.type, resolved |-> target.resolved, score |-> score, metadata |-> target.metadata])
    ELSE best

RECURSIVE fuzzyMatchFrom(_, _, _, _)
fuzzyMatchFrom(text, targets, k, best) ==
    IF k > Len(targets) THEN best
    ELSE fuzzyMatchFrom(text, targets, k + 1,
            betterMatch(targets[k], calculateSimilarity(text, toLowerCase(targets[k].resolved)), best))

\* FuzzyMatcher.match
fuzzyMatch(text, sch) == fuzzyMatchFrom(text, fuzzyTargets(sch), 1, None)

createEntity(token, match) == Entity(token, match.type, match.score, match.resolved, match.metadata)

\* the first schema table named by a context table, 0 when there is none
RECURSIVE tableNamed(_, _, _)
tableNamed(tables, name, t) ==
    IF t > Len(tables) THEN 0
    ELSE IF toLowerCase(tables[t].name) = toLowerCase(name) THEN t
    ELSE tableNamed(tables, name, t + 1)

RECURSIVE tableContaining(_, _, _)
tableContaining(tables, text, t) ==
    IF t > Len(tables) THEN 0
    ELSE IF Includes(toLowerCase(tables[t].name), text) \/ Includes(text, toLowerCase(tables[t].name)) THEN t
    ELSE tableContaining(tables, text, t + 1)

RECURSIVE findBestTableMatchFrom(_, _, _, _)
findBestTableMatchFrom(text, contextTables, sch, k) ==
    IF k > Len(contextTables) THEN tableContaining(sch.tables, text, 1)
    ELSE IF tableNamed(sch.tables, contextTables[k], 1) > 0 THEN tableNamed(sch.tables, contextTables[k], 1)
    ELSE findBestTableMatchFrom(text, contextTables, sch, k + 1)

\* ContextualResolver.findBestTableMatch: the index of the table, 0 for null
findBestTableMatch(text, context, sch) == findBestTableMatchFrom(text, context.tables, sch, 1)

\* ContextualResolver.findBestColumnMatch: the name of the column, None for null
RECURSIVE findBestColumnMatchFrom(_, _, _, _)
findBestColumnMatchFrom(text, tables, t, c) ==
    IF t > Len(tables) THEN None
    ELSE IF c > Len(tables[t].columns) THEN findBestColumnMatchFrom(text, tables, t + 1, 1)
    ELSE IF \/ toLowerCase(tables[t].columns[c].name) = text
            \/ Includes(toLowerCase(tables[t].columns[c].name), text)
            \/ Includes(text, toLowerCase(tables[t].columns[c].name))
         THEN Some(tables[t].columns[c].name)
    ELSE findBestColumnMatchFrom(text, tables, t, c + 1)

findBestColumnMatch(text, sch) == findBestColumnMatchFrom(text, sch.tables, 1, 1)

fromClause(token, table) ==
    Some(Entity(token, "TABLE", Conf(8, 10), table.name,
                [TableMetadata(table.name) EXCEPT !.pattern = Some("from_clause")]))

selectClause(token, column) ==
    Some(Entity(token, "COLUMN", Conf(7, 10), column, PatternMetadata("select_clause")))

comparisonLeft(token, column) ==
    Some(Entity(token, "COLUMN", Conf(75, 100), column, PatternMetadata("comparison_left")))

\* ContextualResolver.resolve; index counts from 1
resolve(token, allTokens, index, context, sch) ==
    IF /\ index > 1 /\ allTokens[index - 1].type = "FROM_KEYWORD" /\ token.type = "NOUN"
       /\ findBestTableMatch(token.normalized, context, sch) > 0
    THEN fromClause(token, sch.tables[findBestTableMatch(token.normalized, context, sch)])
    ELSE IF /\ index > 1 /\ allTokens[index - 1].type = "SELECT_KEYWORD" /\ token.type = "NOUN"
            /\ findBestColumnMatch(token.normalized, sch) # None
    THEN selectClause(token, findBestColumnMatch(token.normalized, sch)[1])
    ELSE IF /\ index < Len(allTokens) /\ allTokens[index + 1].type = "COMPARISON_OP"
            /\ findBestColumnMatch(token.normalized, sch) # None
    THEN comparisonLeft(token, findBestColumnMatch(token.normalized, sch)[1])
    ELSE None

aggregationMapping ==
    ("sum" :> "SUM") @@ ("total" :> "SUM") @@ ("add up" :> "SUM") @@ ("count" :> "COUNT") @@
    ("number of" :> "COUNT") @@ ("how many" :> "COUNT") @@ ("average" :> "AVG") @@ ("avg" :> "AVG") @@
    ("mean" :> "AVG") @@ ("maximum" :> "MAX") @@ ("max" :> "MAX") @@ ("highest" :> "MAX") @@
    ("minimum" :> "MIN") @@ ("min" :> "MIN") @@ ("lowest" :> "MIN")

operatorMapping ==
    ("equal to" :> "=") @@ ("equals" :> "=") @@ ("is" :> "=") @@ ("greater than" :> ">") @@
    ("more than" :> ">") @@ ("above" :> ">") @@ ("less than" :> "<") @@ ("fewer than" :> "<") @@
    ("below" :> "<") @@ ("not equal" :> "!=") @@ ("different from" :> "!=") @@
    ("between" :> "BETWEEN") @@ ("in range" :> "BETWEEN") @@ ("like" :> "LIKE") @@
    ("contains" :> "LIKE") @@ ("includes" :> "LIKE") @@ ("and" :> "AND") @@ ("or" :> "OR") @@
    ("not" :> "NOT")

\* mapping[text.toLowerCase()] || text.toUpperCase()
mapped(mapping, text) ==
    IF toLowerCase(text) \in DOMAIN mapping THEN mapping[toLowerCase(text)] ELSE toUpperCase(text)

normalizeAggregation(text) == mapped(aggregationMapping, text)

normalizeOperator(text) == mapped(operatorMapping, text)

\* recognizeByType; the parsed date of a temporal entity's metadata is left out
recognizeByType(token) ==
    CASE token.type = "STRING_LITERAL" -> Some(Entity(token, "TEXT", Conf(9, 10), token.normalized, NoMetadata))
      [] token.type = "NUMBER_LITERAL" -> Some(Entity(token, "NUMERIC", Conf(9, 10), token.normalized, NoMetadata))
      [] token.type \in {"DATE_LITERAL", "TEMPORAL"} ->
            Some(Entity(token, "TEMPORAL", Conf(9, 10), token.normalized, NoMetadata))
      [] token.type = "BOOLEAN_LITERAL" ->
            Some(Entity(token, "BOOLEAN", Conf(1, 1),
                        IF token.normalized \in {"true", "yes"} THEN "true" ELSE "false", NoMetadata))
      [] token.type = "NULL_LITERAL" -> Some(Entity(token, "NULL", Conf(1, 1), "NULL", NoMetadata))
      [] token.type = "AGGREGATION" ->
            Some(Entity(token, "AGGREGATION", Conf(9, 10), normalizeAggregation(token.normalized), NoMetadata))
      [] token.type \in {"COMPARISON_OP", "LOGICAL_OP"} ->
            Some(Entity(token, "OPERATOR", Conf(9, 10), normalizeOperator(token.normalized), NoMetadata))
      [] OTHER -> None

afterContextual(contextualMatch, token) ==
    IF contextualMatch # None THEN contextualMatch ELSE recognizeByType(token)

afterFuzzy(fuzzy, token, allTokens, index, context, sch) ==
    IF fuzzy # None /\ ConfGt(fuzzy[1].score, Conf(7, 10))
    THEN Some(createEntity(token, fuzzy[1]))
    ELSE afterContextual(resolve(token, allTokens, index, context, sch), token)

afterDirect(direct, token, allTokens, index, context, sch) ==
    IF direct # None THEN direct
    ELSE afterFuzzy(fuzzyMatch(token.normalized, sch), token, allTokens, index, context, sch)

\* recognizeEntity: the entity, or None for null
recognizeEntity(token, allTokens, index, context, sch) ==
    afterDirect(directMatch(token, sch), token, allTokens, index, context, sch)

\* Array.from(tables) of buildContext: the normalized texts of the TABLE_NAME
\* tokens, each once, in the order of their first occurrence
RECURSIVE contextTables(_, _, _)
contextTables(tokens, i, acc) ==
    IF i > Len(tokens) THEN acc
    ELSE contextTables(tokens, i + 1,
            IF tokens[i].type = "TABLE_NAME" /\ tokens[i].normalized \notin SeqToSet(acc)
            THEN Append(acc, tokens[i].normalized) ELSE acc)

\* buildContext; recognize and the resolver read no other field of the context
buildContext(tokens) == [tables |-> contextTables(tokens, 1, <<>>)]

\* findTablesWithColumn: the names of the tables
RECURSIVE findTablesWithColumnFrom(_, _, _)
findTablesWithColumnFrom(normalized, tables, t) ==
    IF t > Len(tables) THEN <<>>
    ELSE (IF firstMatchingColumn(normalized, tables[t].columns, 1) > 0 THEN <<tables[t].name>> ELSE <<>>)
         \o findTablesWithColumnFrom(normalized, tables, t + 1)

findTablesWithColumn(columnName, sch) == findTablesWithColumnFrom(toLowerCase(columnName), sch.tables, 1)

\* context.tables.find(t => possibleTables.some(pt => pt.name.toLowerCase() === t.toLowerCase()))
RECURSIVE findContextTable(_, _, _)
findContextTable(contextTbls, possibleTables, k) ==
    IF k > Len(contextTbls) THEN None
    ELSE IF \E p \in 1..Len(possibleTables) : toLowerCase(possibleTables[p]) = toLowerCase(contextTbls[k])
         THEN Some(contextTbls[k])
    ELSE findContextTable(contextTbls, possibleTables, k + 1)

\* entity.confidence *= 0.4 in place of 0.7
lowerConfidence_harsh(entity, possibleTables) ==
    [entity EXCEPT !.confidence = ConfTimes(@, Conf(4, 10)),
                   !.metadata = [@ EXCEPT !.ambiguous = TRUE, !.possibleTables = possibleTables]]

\* the else branch of resolveAmbiguities: no context table names a possible table
lowerConfidence(entity, possibleTables) ==
    [entity EXCEPT !.confidence = ConfTimes(@, Conf(7, 10)),
                   !.metadata = [@ EXCEPT !.ambiguous = TRUE, !.possibleTables = possibleTables]]

raiseConfidence(entity, table, factor) ==
    [entity EXCEPT !.confidence = ConfMin(ConfTimes(@, factor), Conf(1, 1)),
                   !.metadata = [@ EXCEPT !.table = Some(table)]]

disambiguate(entity, possibleTables, contextTable) ==
    IF contextTable # None THEN raiseConfidence(entity, contextTable[1], Conf(105, 100))
    ELSE lowerConfidence(entity, possibleTables)

resolveAmong(entity, possibleTables, context) ==
    IF Len(possibleTables) = 1 THEN raiseConfidence(entity, possibleTables[1], Conf(11, 10))
    ELSE IF Len(possibleTables) > 1
         THEN disambiguate(entity, possibleTables, findContextTable(context.tables, possibleTables, 1))
    ELSE entity

\* the body of the loop of resolveAmbiguities
resolveAmbiguity(entity, context, sch) ==
    IF entity.type = "COLUMN" /\ entity.metadata.table = None
    THEN resolveAmong(entity,
                      findTablesWithColumn(IF entity.resolvedName # "" THEN entity.resolvedName ELSE entity.text, sch),
                      context)
    ELSE entity

resolveAmbiguities(ents, context, sch) ==
    [i \in 1..Len(ents) |-> resolveAmbiguity(ents[i], context, sch)]

\* if (entity && entity.confidence > 0.3) entities.push(entity)
pushed(entity) == IF entity # None /\ ConfGt(entity[1].confidence, Conf(3, 10)) THEN entity ELSE <<>>

RECURSIVE recognizedFrom(_, _, _, _)
recognizedFrom(tokens, i, context, sch) ==
    IF i > Len(tokens) THEN <<>>
    ELSE pushed(recognizeEntity(tokens[i], tokens, i, context, sch)) \o recognizedFrom(tokens, i + 1, context, sch)

\* EntityRecognizer.recognize
recognize(tokens, sch) ==
    resolveAmbiguities(recognizedFrom(tokens, 1, buildContext(tokens), sch), buildContext(tokens), sch)

MaxTokens == 3

Token(text, type) == [text |-> text, normalized |-> text, type |-> type]

\* tokens of the tokenizer: keywords, schema names, nouns, an operator
TokenPool ==
    { Token("show", "SELECT_KEYWORD"), Token("from", "FROM_KEYWORD"), Token("name", "COLUMN_NAME"),
      Token("customers", "TABLE_NAME"), Token("fullname", "NOUN"), Token("customer", "NOUN"),
      Token("=", "COMPARISON_OP") }

\* the token lists of at most MaxTokens tokens; position is the token's place in the text
TokenLists ==
    UNION { { [i \in 1..n |-> [text |-> ts[i].text, normalized |-> ts[i].normalized,
                               type |-> ts[i].type, position |-> i]] : ts \in [1..n -> TokenPool] } : n \in 0..MaxTokens }

merchantsTable == TableInfo("merchants", <<"id", "name">>)

pricesTable == TableInfo("prices", <<"sku", "unit_price">>)

\* name is a column of both tables of the first schema and of one table of the second
EntitySchemas ==
    { [tables |-> <<customersTable, merchantsTable>>, functions |-> <<>>],
      [tables |-> <<customersTable, pricesTable>>, functions |-> <<[name |-> "concat"]>>] }

InitEntity ==
    /\ Idle
    /\ pc = "start"
    /\ prompt \in TokenLists
    /\ schema \in EntitySchemas
    /\ datasets = NoDatasets
    /\ ir = NotRun /\ optimized = NotRun

\* const entities = recognizer.recognize(tokens)
Recognize ==
    /\ pc = "start"
    /\ entities' = Returned(recognize(prompt, schema))
    /\ pc' = "recognized"
    /\ UNCHANGED <<prompt, schema, dialect, datasets, ir, optimized, sql, rows, cache, frequency, calls, r1, r2, heap>>

NextEntity == Recognize

SpecEntity == InitEntity /\ [][NextEntity]_vars

\* the tables of the schema that have the column the entity resolves to
tablesOf(entity) == findTablesWithColumn(entity.resolvedName, schema)

\* a token other than the entity's own names one of the tables
namedElsewhere(entity, tables) ==
    \E j \in 1..Len(prompt) : \E k \in 1..Len(tables) :
        /\ prompt[j].position # entity.position
        /\ matches(prompt[j].normalized, tables[k])

\* the confidence recognizeEntity gave the entity's token, before the ambiguity pass
preAmbiguity(entity) ==
    recognizeEntity(prompt[entity.position], prompt, entity.position, buildContext(prompt), schema)[1].confidence

\* C17: a returned entity that resolves to a column of two or more tables, none
\* of them named by another token, is flagged ambiguous and has 70% of the
\* confidence it had before the ambiguity pass.
C17_AmbiguousColumnFlagged ==
    pc = "recognized" =>
        \A i \in 1..Len(entities.value) :
            (/\ entities.value[i].type = "COLUMN"
             /\ Len(tablesOf(entities.value[i])) >= 2
             /\ ~namedElsewhere(entities.value[i], tablesOf(entities.value[i])))
            => /\ entities.value[i].metadata.ambiguous
               /\ ConfEq(entities.value[i].confidence, ConfTimes(preAmbiguity(entities.value[i]), Conf(7, 10)))

\* C18: every entity recognize returns has a confidence above 0.3 and at most 1.0
C18_ConfidenceInRange ==
    pc = "recognized" =>
        \A i \in 1..Len(entities.value) :
            /\ ConfGt(entities.value[i].confidence, Conf(3, 10))
            /\ ~ConfGt(entities.value[i].confidence, Conf(1, 1))

\* the list holds an entity the ambiguity pass scaled down to 0.49 and one at the cap 1.0
C18_Witness ==
    /\ pc = "recognized"
    /\ \E i \in 1..Len(entities.value) :
          entities.value[i].metadata.ambiguous /\ ConfEq(entities.value[i].confidence, Conf(49, 100))
    /\ \E i \in 1..Len(entities.value) :
          entities.value[i].metadata.pattern = None /\ ConfEq(entities.value[i].confidence, Conf(1, 1))

(***************************************************************************)
(* The whole pipeline of NL2SQL.run                                        *)
(***************************************************************************)

\* C19: over a schema with at least one table, run (parseIntentToIR, optimizeIR,
\* generateSQL) throws at no stage for the dialects sqlite, postgres and mysql,
\* and ends with SQL text.
C19_PipelineCompletes ==
    (Len(schema.tables) >= 1 /\ dialect \in MappedDialects) =>
        /\ pc # "failed"
        /\ pc = "done" => sql.kind = "ok"

(***************************************************************************)
(* Predicate pushdown keeps every filter                                   *)
(***************************************************************************)

\* the conditions attached to the joins of a query
joinConditions(q0) ==
    UNION { IF "conditions" \in DOMAIN OrEmpty(q0.joins)[j] THEN SeqToSet(OrEmpty(q0.joins)[j].conditions) ELSE {}
            : j \in 1..Len(OrEmpty(q0.joins)) }

\* C20: every condition of the where of the query given to optimize is, in the
\* optimizedIR the call returns, still in where or attached to a join.
C20_PushdownKeepsFilters ==
    pc = "first" =>
        \A i \in 1..Len(OrEmpty(ir.value.where)) :
            \/ ir.value.where[1][i] \in SeqToSet(OrEmpty(r1.value.optimizedIR.where))
            \/ ir.value.where[1][i] \in joinConditions(r1.value.optimizedIR)

(***************************************************************************)
(* optimize returns for every well-formed query                            *)
(***************************************************************************)

\* C21: the first optimize call on a well-formed query, joins and orderBy
\* included, returns an OptimizationResult and does not throw.
C21_OptimizeReturns == r1.kind # "throw"

(***************************************************************************)
(* What optimize reports as applied                                        *)
(***************************************************************************)

\* the types of the passes listed in a result
recorded(result) == { result.optimizations[i].type : i \in 1..Len(result.optimizations) }

\* C22: a pass whose output is structurally equal to its input is not listed in
\* optimizations; shown for the first two passes of a call that missed the cache:
\* simplification, and pushdown on the simplified query.
C22_OnlyChangingPassesRecorded ==
    (pc = "first" /\ calls = 1) =>
        /\ simplify(cloneIR(ir.value)) = cloneIR(ir.value) => "CONSTANT_FOLDING" \notin recorded(r1.value)
        /\ pushPredicates(simplify(cloneIR(ir.value))) = simplify(cloneIR(ir.value))
              => "PREDICATE_PUSHDOWN" \notin recorded(r1.value)

\* a condition whose two sides are columns of different tables
spansTwoTables(condition) ==
    IsColumnRef(condition.lhs) /\ IsColumnRef(condition.rhs) /\ condition.lhs.table # condition.rhs.table

\* C23: a where condition that spans two tables is still in the where of the
\* optimizedIR that optimize returns, whether the query has joins or not.
C23_SpanningConditionStays ==
    pc = "first" =>
        \A i \in 1..Len(OrEmpty(ir.value.where)) :
            spansTwoTables(ir.value.where[1][i])
                => ir.value.where[1][i] \in SeqToSet(OrEmpty(r1.value.optimizedIR.where))

(***************************************************************************)
(* The plan optimize returns                                               *)
(***************************************************************************)

\* the nodes reachable from a plan node through children
RECURSIVE planNodes(_)
planNodes(node) ==
    {node} \cup (IF "children" \in DOMAIN node
                 THEN UNION { planNodes(node.children[i]) : i \in 1..Len(node.children) }
                 ELSE {})

planTypes(node) == { n.type : n \in planNodes(node) }

\* the query has a where and nothing else for which generatePlan builds a node
filterOnly(q0) ==
    /\ Len(OrEmpty(q0.where)) > 0 /\ Len(OrEmpty(q0.joins)) = 0
    /\ Len(OrEmpty(q0.groupBy)) = 0 /\ Len(OrEmpty(q0.orderBy)) = 0 /\ q0.limit = None

\* C24: in the plan of a returned result a Filter node is reachable from the root
\* when the optimized query has a where, a Join node when it has joins, an
\* Aggregate node when it is grouped, a Sort node when it is ordered; and the
\* plan's cost counts the nodes built: for a query with a where only, the scan
\* plus the filter.
C24_PlanHoldsEveryNode ==
    pc = "first" =>
        /\ Len(OrEmpty(r1.value.optimizedIR.where)) > 0 => "FILTER" \in planTypes(r1.value.plan)
        /\ Len(OrEmpty(r1.value.optimizedIR.joins)) > 0 => "JOIN" \in planTypes(r1.value.plan)
        /\ Len(OrEmpty(r1.value.optimizedIR.groupBy)) > 0 => "AGGREGATE" \in planTypes(r1.value.plan)
        /\ Len(OrEmpty(r1.value.optimizedIR.orderBy)) > 0 => "SORT" \in planTypes(r1.value.plan)
        /\ filterOnly(r1.value.optimizedIR) =>
              r1.value.plan.cost = scanCost(r1.value.optimizedIR.from) + filterCost(r1.value.optimizedIR.where[1])

(***************************************************************************)
(* What a cache hit hands back                                             *)
(***************************************************************************)

\* the call under study was answered from the cache: it stored nothing, so the
\* optimizer has served more calls than it holds entries
answeredFromCache == pc = "first" /\ calls > Len(cache)

\* C25: a result answered from the cache was computed from a query equal to the
\* one asked, having included: its optimizedIR is the one the passes produce
\* from the query asked, and carries that query's having.
C25_HitIsForSameQuery ==
    answeredFromCache =>
        /\ r1.value.optimizedIR = optimizeMiss(ir.value, <<>>).value.optimizedIR
        /\ r1.value.optimizedIR.having = ir.value.having

(***************************************************************************)
(* One optimizer asked the same query again and again                      *)
(***************************************************************************)
MaxSubmits == 12

\* const r = optimizer.optimize(ir), once more on the same optimizer
Submit == calls < MaxSubmits /\ FirstCall(optimize(ir.value, cache, frequency))

NextFrequent == Submit

SpecFrequent == InitHistory /\ [][NextFrequent]_vars

recommended(result) == { result.recommendations[i].type : i \in 1..Len(result.recommendations) }

\* C26: the result returned for a grouped query submitted more than 10 times to
\* one optimizer contains the MATERIALIZED_VIEW recommendation.
C26_FrequentQueryRecommended ==
    (pc = "first" /\ calls > 10 /\ Len(OrEmpty(ir.value.groupBy)) > 0) =>
        "MATERIALIZED_VIEW" \in recommended(r1.value)

(***************************************************************************)
(* parseIntentToIR on prompts that ask for an average                      *)
(***************************************************************************)
AveragePrompts ==
    { "average total per customer", "avg order total", "mean total of orders", "Show average total",
      "average amount per customer", "average orders" }

InitAverage ==
    /\ Idle
    /\ pc = "start"
    /\ prompt \in AveragePrompts
    /\ schema \in Schemas
    /\ datasets = NoDatasets
    /\ ir = NotRun /\ optimized = NotRun

NextAverage == Parse

SpecAverage == InitAverage /\ [][NextAverage]_vars

\* the column an average of totals is taken over: total, else amount
averagedColumn(sch, base) == IF columnExists(sch, base, "total") THEN "total" ELSE "amount"

\* C27: an IR built for a prompt with an average-family word and "total", over a
\* base table that has a total or amount column, projects AVG over that column.
C27_AverageTotalIsAvg ==
    (/\ pc = "parsed"
     /\ \E w \in {"avg", "average", "mean"} : Includes(toLowerCase(prompt), w)
     /\ Includes(toLowerCase(prompt), "total")
     /\ columnExists(schema, ir.value.from, "total") \/ columnExists(schema, ir.value.from, "amount"))
    => \E i \in 1..Len(ir.value.columns) :
          /\ "func" \in DOMAIN ir.value.columns[i]
          /\ ir.value.columns[i].func = "avg"
          /\ ir.value.columns[i].expr = ref(ir.value.from, averagedColumn(schema, ir.value.from))

(***************************************************************************)
(* AdvancedTokenizer.tokenize (src/dist/nlp/tokenizer/advanced-tokenizer.js)*)
(* and the limit that IntentClassifier.classify reads from the tokens      *)
(* (src/dist/nlp/intent/intent-classifier.js).  In the specification       *)
(* SpecLimit, schema holds the tokenizer's entity dictionary, r1 the token *)
(* list and r2 the components of the classification.                       *)
(***************************************************************************)

\* \w
IsWordChar(c) == c \in UpperSet \cup LowerSet \cup DigitSet \cup {"_"}

WordAt(s, k) == k >= 1 /\ k <= Len(s) /\ IsWordChar(CharAt(s, k))

\* \b between the characters k and k + 1 of s
Boundary(s, k) == WordAt(s, k) # WordAt(s, k + 1)

\* the alternative matches at the start of s, ignoring case (/i), from \b to \b
AlternativeMatches(s, alt) ==
    /\ Len(alt) <= Len(s)
    /\ toLowerCase(SubSeq(s, 1, Len(alt))) = alt
    /\ Boundary(s, 0)
    /\ Boundary(s, Len(alt))

\* /\b(a|b|...)\b/i at index 0: the length of the first alternative that matches, else 0
RECURSIVE matchWords(_, _, _)
matchWords(s, alts, k) ==
    IF k > Len(alts) THEN 0
    ELSE IF AlternativeMatches(s, alts[k]) THEN Len(alts[k])
    ELSE matchWords(s, alts, k + 1)

DigitsAt(s, from, to) == to <= Len(s) /\ \A k \in from..to : IsDigit(CharAt(s, k))

\* /\b\d{4}-\d{2}-\d{2}\b/ at index 0
matchDate(s) ==
    IF /\ DigitsAt(s, 1, 4) /\ StartsAt(s, 5, "-") /\ DigitsAt(s, 6, 7) /\ StartsAt(s, 8, "-")
       /\ DigitsAt(s, 9, 10) /\ Boundary(s, 10)
    THEN 10 ELSE 0

\* \s+\d+ from position k on: the position of the last digit, 0 when it does not match
spacesThenDigits(s, k) ==
    IF SkipSpaces(s, k) > k /\ SkipDigits(s, SkipSpaces(s, k)) > SkipSpaces(s, k)
    THEN SkipDigits(s, SkipSpaces(s, k)) - 1 ELSE 0

\* /\b(top|first|last)\s+\d+/i at index 0: a word that is a prefix of s and is not
\* followed by spaces and digits makes the later alternatives be tried
RECURSIVE matchQuantified(_, _, _)
matchQuantified(s, alts, k) ==
    IF k > Len(alts) THEN 0
    ELSE IF /\ Len(alts[k]) <= Len(s) /\ toLowerCase(SubSeq(s, 1, Len(alts[k]))) = alts[k]
            /\ Boundary(s, 0) /\ spacesThenDigits(s, Len(alts[k]) + 1) > 0
         THEN spacesThenDigits(s, Len(alts[k]) + 1)
    ELSE matchQuantified(s, alts, k + 1)

\* position of the next occurrence of the quote at or after k, 0 when there is none
RECURSIVE closingQuote(_, _, _)
closingQuote(s, quote, k) ==
    IF k > Len(s) THEN 0 ELSE IF CharAt(s, k) = quote THEN k ELSE closingQuote(s, quote, k + 1)

\* /'[^']*'|"[^"]*"/ at index 0
matchString(s) ==
    IF StartsAt(s, 1, "'") THEN closingQuote(s, "'", 2)
    ELSE IF StartsAt(s, 1, "\"") THEN closingQuote(s, "\"", 2)
    ELSE 0

\* \.?\d*\b after the digits that end at d: with the point when the match can
\* end after it, else without
matchFraction(s, d) ==
    IF StartsAt(s, d + 1, ".") /\ Boundary(s, SkipDigits(s, d + 2) - 1) THEN SkipDigits(s, d + 2) - 1
    ELSE IF Boundary(s, d) THEN d
    ELSE 0

\* /\b\d+\.?\d*\b/ at index 0
matchNumber(s) == IF SkipDigits(s, 1) > 1 THEN matchFraction(s, SkipDigits(s, 1) - 1) ELSE 0

WordPattern(words, type, priority) == [kind |-> "words", words |-> words, type |-> type, priority |-> priority]

OtherPattern(kind, type, priority) == [kind |-> kind, words |-> <<>>, type |-> type, priority |-> priority]

\* the patterns, which the stable sort by descending priority leaves in the order written
patterns ==
    << WordPattern(<<"select", "get", "fetch", "retrieve", "show", "display", "find">>, "SELECT_KEYWORD", 100),
       WordPattern(<<"from", "in", "within">>, "FROM_KEYWORD", 100),
       WordPattern(<<"where", "when", "filter", "having">>, "WHERE_KEYWORD", 100),
       WordPattern(<<"join", "combine", "merge", "connect">>, "JOIN_KEYWORD", 100),
       WordPattern(<<"group by", "grouped by", "group">>, "GROUP_KEYWORD", 100),
       WordPattern(<<"order by", "sort by", "sorted by", "order", "sort">>, "ORDER_KEYWORD", 100),
       WordPattern(<<"sum", "total", "add up", "summation">>, "AGGREGATION", 95),
       WordPattern(<<"count", "number of", "how many", "quantity">>, "AGGREGATION", 95),
       WordPattern(<<"average", "avg", "mean">>, "AGGREGATION", 95),
       WordPattern(<<"maximum", "max", "highest", "greatest">>, "AGGREGATION", 95),
       WordPattern(<<"minimum", "min", "lowest", "smallest">>, "AGGREGATION", 95),
       WordPattern(<<"equal to", "equals", "is", "=">>, "COMPARISON_OP", 90),
       WordPattern(<<"greater than", "more than", ">", "above">>, "COMPARISON_OP", 90),
       WordPattern(<<"less than", "fewer than", "<", "below">>, "COMPARISON_OP", 90),
       WordPattern(<<"between", "in range", "within range">>, "COMPARISON_OP", 90),
       WordPattern(<<"like", "contains", "includes", "matching">>, "COMPARISON_OP", 90),
       WordPattern(<<"not equal", "!=", "<>", "different from">>, "COMPARISON_OP", 90),
       WordPattern(<<"and", "both", "as well as", "&&">>, "LOGICAL_OP", 85),
       WordPattern(<<"or", "either", "any of", "||">>, "LOGICAL_OP", 85),
       WordPattern(<<"not", "no", "none", "!">>, "NEGATION", 85),
       WordPattern(<<"today", "yesterday", "tomorrow">>, "TEMPORAL", 80),
       WordPattern(<<"this week", "last week", "next week">>, "TEMPORAL", 80),
       WordPattern(<<"this month", "last month", "next month">>, "TEMPORAL", 80),
       WordPattern(<<"this year", "last year", "next year">>, "TEMPORAL", 80),
       OtherPattern("date", "DATE_LITERAL", 80),
       WordPattern(<<"all", "every", "each">>, "QUANTIFIER", 75),
       WordPattern(<<"some", "any", "few">>, "QUANTIFIER", 75),
       OtherPattern("quantified", "QUANTIFIER", 75),
       OtherPattern("string", "STRING_LITERAL", 70),
       OtherPattern("number", "NUMBER_LITERAL", 70),
       WordPattern(<<"true", "false", "yes", "no">>, "BOOLEAN_LITERAL", 70),
       WordPattern(<<"null", "nil", "none", "empty">>, "NULL_LITERAL", 70),
       WordPattern(<<"what", "which", "who", "where", "when", "why", "how">>, "QUESTION", 65) >>

\* remaining.match(pattern.pattern) with match.index === 0: the length of match[0], else 0
matchAtStart(p, s) ==
    CASE p.kind = "words" -> matchWords(s, p.words, 1)
      [] p.kind = "date" -> matchDate(s)
      [] p.kind = "quantified" -> matchQuantified(s, <<"top", "first", "last">>, 1)
      [] p.kind = "string" -> matchString(s)
      [] p.kind = "number" -> matchNumber(s)

\* the first pattern that matches at the start of s, 0 when none does
RECURSIVE firstPattern(_, _)
firstPattern(s, k) ==
    IF k > Len(patterns) THEN 0
    ELSE IF matchAtStart(patterns[k], s) > 0 THEN k
    ELSE firstPattern(s, k + 1)

abbreviations ==
    ("avg" :> "average") @@ ("max" :> "maximum") @@ ("min" :> "minimum") @@ ("qty" :> "quantity") @@
    ("amt" :> "amount") @@ ("dept" :> "department") @@ ("emp" :> "employee") @@ ("cust" :> "customer") @@
    ("prod" :> "product") @@ ("trans" :> "transaction")

\* AdvancedTokenizer.normalize
normalize(text) ==
    IF toLowerCase(text) \in DOMAIN abbreviations THEN abbreviations[toLowerCase(text)]
    ELSE IF \/ StartsAt(text, 1, "'") /\ EndsWith(text, "'")
            \/ StartsAt(text, 1, "\"") /\ EndsWith(text, "\"")
         THEN (IF Len(text) >= 2 THEN SubSeq(text, 2, Len(text) - 1) ELSE "")
    ELSE toLowerCase(text)

\* first position at or after i whose character is white space
RECURSIVE SkipWord(_, _)
SkipWord(s, i) == IF i <= Len(s) /\ ~IsSpace(CharAt(s, i)) THEN SkipWord(s, i + 1) ELSE i

\* remaining.split(/\s+/)[0]
firstWordOf(s) == SubSeq(s, 1, SkipWord(s, 1) - 1)

\* extractNextWord: the run of non-space characters, or the first character
extractNextWord(s) == IF SkipWord(s, 1) > 1 THEN SubSeq(s, 1, SkipWord(s, 1) - 1) ELSE SubSeq(s, 1, 1)

guessTokenType(word) ==
    IF Len(word) > 0 /\ CharAt(word, 1) \in UpperSet THEN "NOUN"
    ELSE IF EndsWith(word, "ing") THEN "VERB"
    ELSE IF EndsWith(word, "ed") THEN "VERB"
    ELSE IF EndsWith(word, "ly") THEN "ADVERB"
    ELSE IF \E k \in 1..Len(word) : CharAt(word, k) \in {".", "!", "?", ",", ";", ":"} THEN "PUNCTUATION"
    ELSE "NOUN"

TokenOf(text, type, position, normalized, confidence) ==
    [text |-> text, type |-> type, position |-> position, length |-> Len(text),
     normalized |-> normalized, confidence |-> confidence]

\* the token at the start of remaining, given the pattern k that matches there (0: none)
nextToken(remaining, position, k, dictionary) ==
    IF k > 0
    THEN TokenOf(SubSeq(remaining, 1, matchAtStart(patterns[k], remaining)), patterns[k].type, position,
                 normalize(SubSeq(remaining, 1, matchAtStart(patterns[k], remaining))),
                 Conf(patterns[k].priority, 100))
    ELSE IF toLowerCase(firstWordOf(remaining)) \in DOMAIN dictionary
    THEN TokenOf(firstWordOf(remaining), dictionary[toLowerCase(firstWordOf(remaining))], position,
                 toLowerCase(firstWordOf(remaining)), Conf(8, 10))
    ELSE TokenOf(extractNextWord(remaining), guessTokenType(extractNextWord(remaining)), position,
                 normalize(extractNextWord(remaining)), Conf(5, 10))

\* the loop of tokenize: the token, then the white space after it
RECURSIVE tokenizeFrom(_, _, _)
tokenizeAfter(remaining, token, dictionary) ==
    <<token>> \o tokenizeFrom(SubSeq(remaining, SkipSpaces(remaining, token.length + 1), Len(remaining)),
                              token.position + SkipSpaces(remaining, token.length + 1) - 1, dictionary)

tokenizeFrom(remaining, position, dictionary) ==
    IF Len(remaining) = 0 THEN <<>>
    ELSE tokenizeAfter(remaining, nextToken(remaining, position, firstPattern(remaining, 1), dictionary), dictionary)

\* AdvancedTokenizer.postProcess: two nouns that form a known entity, "group by" and
\* "order by" become one token
combinedOf(current, next) == current.normalized \o " " \o next.normalized

mergedToken(current, next, type, normalized, confidence) ==
    [text |-> current.text \o " " \o next.text, type |-> type, position |-> current.position,
     length |-> current.length + next.length + 1, normalized |-> normalized, confidence |-> confidence]

RECURSIVE postProcessFrom(_, _, _)
postProcessFrom(tokens, i, dictionary) ==
    IF i > Len(tokens) THEN <<>>
    ELSE IF /\ i < Len(tokens) /\ tokens[i].type = "NOUN" /\ tokens[i + 1].type = "NOUN"
            /\ combinedOf(tokens[i], tokens[i + 1]) \in DOMAIN dictionary
    THEN <<mergedToken(tokens[i], tokens[i + 1], dictionary[combinedOf(tokens[i], tokens[i + 1])],
                       combinedOf(tokens[i], tokens[i + 1]), Conf(9, 10))>>
         \o postProcessFrom(tokens, i + 2, dictionary)
    ELSE IF i < Len(tokens) /\ tokens[i].normalized = "group" /\ tokens[i + 1].normalized = "by"
    THEN <<mergedToken(tokens[i], tokens[i + 1], "GROUP_KEYWORD", "group by", Conf(1, 1))>>
         \o postProcessFrom(tokens, i + 2, dictionary)
    ELSE IF i < Len(tokens) /\ tokens[i].normalized = "order" /\ tokens[i + 1].normalized = "by"
    THEN <<mergedToken(tokens[i], tokens[i + 1], "ORDER_KEYWORD", "order by", Conf(1, 1))>>
         \o postProcessFrom(tokens, i + 2, dictionary)
    ELSE <<tokens[i]>> \o postProcessFrom(tokens, i + 1, dictionary)

postProcess(tokens, dictionary) == postProcessFrom(tokens, 1, dictionary)

\* AdvancedTokenizer.tokenize
tokenize(input, dictionary) == postProcess(tokenizeFrom(input, 0, dictionary), dictionary)

\* the keys initializeEntityDictionary sets for a table: the name, its plural, and
\* its singular when it ends in s
tableKeys(table) ==
    {toLowerCase(table), toLowerCase(table) \o "s"}
    \cup (IF EndsWith(table, "s") THEN {toLowerCase(SubSeq(table, 1, Len(table) - 1))} ELSE {})

\* and for a column: the name, and the name with spaces for underscores
columnKeys(column) == {toLowerCase(column), toLowerCase(replaceAll(column, "_", " "))}

allTableKeys(sch) == UNION { tableKeys(sch.tables[t]) : t \in 1..Len(sch.tables) }

allColumnKeys(sch) ==
    UNION { UNION { columnKeys(sch.columns[t].columns[c]) : c \in 1..Len(sch.columns[t].columns) }
            : t \in 1..Len(sch.columns) }

\* initializeEntityDictionary: columns are set after tables, so a key of both is a column
initializeEntityDictionary(sch) ==
    [w \in allTableKeys(sch) \cup allColumnKeys(sch) |->
        IF w \in allColumnKeys(sch) THEN "COLUMN_NAME" ELSE "TABLE_NAME"]

\* parseInt of a text that starts with digits
parseInt(text) == Number(SubSeq(text, 1, SkipDigits(text, 1) - 1))

\* IntentClassifier.extractLimit: None for null
RECURSIVE extractLimitFrom(_, _)
extractLimitFrom(tokens, i) ==
    IF i > Len(tokens) THEN None
    ELSE IF /\ tokens[i].normalized \in {"top", "first", "limit", "last"}
            /\ i < Len(tokens) /\ tokens[i + 1].type = "NUMBER_LITERAL"
         THEN Some(parseInt(tokens[i + 1].normalized))
    ELSE extractLimitFrom(tokens, i + 1)

extractLimit(tokens) == extractLimitFrom(tokens, 1)

LimitWords == {"", "top", "first", "limit", "last"}

LimitNumbers == {"5", "10", "250"}

LimitLeads == {"", "show", "Get the"}

LimitTails == {"", "customers", "orders by total"}

\* texts such as "show top 5 customers", "limit 10", "Get the last 250 orders by total"
LimitPrompts ==
    { Sentence(<<lead, word, IF word = "" THEN "" ELSE number, tail>>) :
        lead \in LimitLeads, word \in LimitWords, number \in LimitNumbers, tail \in LimitTails }

\* the schemas a tokenizer is built with: none, and one with two tables
TokenizerSchemas ==
    { [tables |-> <<>>, columns |-> <<>>],
      [tables |-> <<"orders", "customers">>,
       columns |-> <<[table |-> "orders", columns |-> <<"id", "order_date", "total">>],
                     [table |-> "customers", columns |-> <<"id", "name">>]>>] }

InitLimit ==
    /\ Idle
    /\ pc = "start"
    /\ prompt \in LimitPrompts \ {""}
    /\ schema \in TokenizerSchemas
    /\ datasets = NoDatasets
    /\ ir = NotRun /\ optimized = NotRun

\* const tokens = new AdvancedTokenizer(schema).tokenize(text)
Tokenize ==
    /\ pc = "start"
    /\ r1' = Returned(tokenize(prompt, initializeEntityDictionary(schema)))
    /\ pc' = "tokenized"
    /\ UNCHANGED <<prompt, schema, dialect, datasets, ir, optimized, sql, rows, cache, frequency, calls, r2, heap, entities>>

\* const { components } = new IntentClassifier().classify(tokens, entities): of the
\* components, the limit, which extractComponents takes from extractLimit(tokens)
Classify ==
    /\ pc = "tokenized"
    /\ r2' = Returned([limit |-> extractLimit(r1.value)])
    /\ pc' = "classified"
    /\ UNCHANGED <<prompt, schema, dialect, datasets, ir, optimized, sql, rows, cache, frequency, calls, r1, heap, entities>>

NextLimit == Tokenize \/ Classify

SpecLimit == InitLimit /\ [][NextLimit]_vars

\* the numbers N for which the text contains "top N", "first N", "limit N" or "last N"
mentionedLimits(text) ==
    { Number(SubSeq(text, SkipSpaces(text, i + Len(w)), SkipDigits(text, SkipSpaces(text, i + Len(w))) - 1)) :
        <<i, w>> \in { p \in (1..Len(text)) \X {"top", "first", "limit", "last"} :
                        /\ StartsAt(text, p[1], p[2])
                        /\ ~WordAt(text, p[1] - 1)
                        /\ spacesThenDigits(text, p[1] + Len(p[2])) > 0 } }

\* C28: for a text that contains "top N", "first N", "limit N" or "last N",
\* tokenize followed by classify yields components whose limit is that N.
C28_LimitExtracted ==
    (pc = "classified" /\ mentionedLimits(prompt) # {}) =>
        \E n \in mentionedLimits(prompt) : r2.value.limit = Some(n)

(***************************************************************************)
(* The columns the where of a parsed IR refers to.                         *)
(***************************************************************************)
\* the where conditions of the IR the parse built whose left side is a ColumnRef
whereRefs ==
    LET where == OrEmpty(ir.value.where)
    IN { where[i].lhs : i \in { k \in 1..Len(where) : IsColumnRef(where[k].lhs) } }

\* C29: every ColumnRef with a concrete column in the where of an IR built by
\* parseIntentToIR names a column that exists, in the schema, in the table the
\* ColumnRef is attributed to; in particular the date column of a last-N-days
\* condition is a column of ir.from.
C29_WhereColumnsExist ==
    pc = "parsed" =>
        \A lhs \in whereRefs : lhs.column # "*" => columnExists(schema, lhs.table, lhs.column)

(***************************************************************************)
(* The projection optimizeIR returns for a grouped IR.                     *)
(***************************************************************************)
\* C30: when the IR is grouped (non-empty groupBy), every non-aggregate column
\* of the IR optimizeIR returns is one of its groupBy columns: the unused
\* projected columns have been dropped.
C30_GroupedProjectionMinimal ==
    (optimized.kind = "ok" /\ Len(OrEmpty(ir.value.groupBy)) > 0) =>
        \A c \in SeqToSet(optimized.value.columns) :
            "func" \notin DOMAIN c =>
                \E g \in SeqToSet(OrEmpty(optimized.value.groupBy)) :
                    c.table = g.table /\ c.column = g.column

====
